---- MODULE Spec2Model ----
(***************************************************************************)
(* State-machine model of qkit.analysis.IV_curve3.IV_curve3, the analysis  *)
(* context for IV transport measurements.                                  *)
(*                                                                         *)
(* Conventions                                                             *)
(*  - A float is a pair <<n, d>>: the rational n/d in lowest terms with    *)
(*    d > 0, or NaN = <<0,0>>, +inf = <<1,0>>, -inf = <<-1,0>>.            *)
(*    Rounding is not modelled.  Voltages are in units of 10 uV.           *)
(*  - Python None is the empty tuple NONE, a present value x is <<x>>.     *)
(*  - Array positions are Python positions (0-based); At reads one.        *)
(*  - An array of the context is indexed [sweep][outer][point]: the outer  *)
(*    coordinate axes of a 2D/3D scan are flattened into a single axis of  *)
(*    traces, a 1D scan has exactly one trace per sweep.                   *)
(***************************************************************************)
EXTENDS Integers, Sequences, FiniteSets, TLC

(***************************************************************************)
(* Floats (numpy float64 without rounding)                                 *)
(***************************************************************************)
Abs(i) == IF i < 0 THEN -i ELSE i

Sgn(i) == IF i < 0 THEN -1 ELSE IF i > 0 THEN 1 ELSE 0

RECURSIVE Gcd(_, _)
Gcd(a, b) == IF b = 0 THEN a ELSE Gcd(b, a % b)

NaN == <<0, 0>>

Norm(n, d) ==
    IF d = 0 THEN <<Sgn(n), 0>>
    ELSE LET g == Gcd(Abs(n), Abs(d))
             s == Sgn(d)
         IN  <<s * Sgn(n) * (Abs(n) \div g), Abs(d) \div g>>

F(i) == <<i, 1>>

IsNaN(a) == a = NaN

IsInf(a) == a[2] = 0 /\ a[1] # 0

FNeg(a) == <<-a[1], a[2]>>

FAdd(a, b) ==
    IF IsNaN(a) \/ IsNaN(b) THEN NaN
    ELSE IF IsInf(a) /\ IsInf(b) THEN (IF a = b THEN a ELSE NaN)
    ELSE IF IsInf(a) THEN a
    ELSE IF IsInf(b) THEN b
    ELSE Norm(a[1] * b[2] + b[1] * a[2], a[2] * b[2])

FSub(a, b) == FAdd(a, FNeg(b))

FMul(a, b) ==
    IF IsNaN(a) \/ IsNaN(b) THEN NaN
    ELSE IF IsInf(a) \/ IsInf(b) THEN <<Sgn(a[1]) * Sgn(b[1]), 0>>
    ELSE Norm(a[1] * b[1], a[2] * b[2])

\* numpy true division: x/0 is +-inf, 0/0 and inf/inf are NaN
FDiv(a, b) ==
    IF IsNaN(a) \/ IsNaN(b) THEN NaN
    ELSE IF IsInf(a) THEN (IF IsInf(b) THEN NaN
                           ELSE <<a[1] * (IF b[1] < 0 THEN -1 ELSE 1), 0>>)
    ELSE IF IsInf(b) THEN F(0)
    ELSE Norm(a[1] * b[2], a[2] * b[1])

\* a <= b ; every comparison with NaN is False
FLe(a, b) ==
    IF IsNaN(a) \/ IsNaN(b) THEN FALSE
    ELSE IF IsInf(a) THEN (a[1] < 0 \/ a = b)
    ELSE IF IsInf(b) THEN b[1] > 0
    ELSE a[1] * b[2] <= b[1] * a[2]

FGe(a, b) == FLe(b, a)

FLt(a, b) == FLe(a, b) /\ a # b

(***************************************************************************)
(* Python / numpy helpers                                                  *)
(***************************************************************************)
NONE == <<>>

Some(x) == <<x>>

Val(o) == o[1]

\* Python indexing of a 1-D array: negative positions count from the end
InBounds(a, i) == -Len(a) <= i /\ i < Len(a)

\* (a read out of bounds raises IndexError: the callers test InBounds first,
\* the NaN only keeps At total)
At(a, i) ==
    IF ~InBounds(a, i) THEN NaN
    ELSE IF i >= 0 THEN a[i + 1] ELSE a[Len(a) + i + 1]

RECURSIVE FSum(_)
FSum(s) == IF s = <<>> THEN F(0) ELSE FAdd(s[1], FSum(Tail(s)))

DropNaN(s) == SelectSeq(s, LAMBDA v : ~IsNaN(v))

\* np.mean of a 1-D array
Mean(s) == FDiv(FSum(s), F(Len(s)))

\* np.nanmean of a 1-D array (NaN for an all-NaN slice)
NanMean(s) == Mean(DropNaN(s))

RECURSIVE FMinSeq(_)
FMinSeq(s) ==
    IF Len(s) = 1 THEN s[1]
    ELSE LET m == FMinSeq(Tail(s)) IN IF FLe(s[1], m) THEN s[1] ELSE m

RECURSIVE FMaxSeq(_)
FMaxSeq(s) ==
    IF Len(s) = 1 THEN s[1]
    ELSE LET m == FMaxSeq(Tail(s)) IN IF FGe(s[1], m) THEN s[1] ELSE m

\* np.nanmin / np.nanmax of a 1-D array (NaN for an all-NaN slice)
NanMin(s) == IF DropNaN(s) = <<>> THEN NaN ELSE FMinSeq(DropNaN(s))

NanMax(s) == IF DropNaN(s) = <<>> THEN NaN ELSE FMaxSeq(DropNaN(s))

(***************************************************************************)
(* The measurement store: external collaborator, an input of the model.    *)
(* A uuid is the tuple <<kind, dim, bias, voff, cuts, dvdi>> that tells    *)
(* what the measurement file holds:                                        *)
(*   kind  "hs" half-swing, "q4" 4 quadrants, "cu" one single sweep,       *)
(*         "hs0" half-swing of a sample that retraps at zero bias,         *)
(*         "up2" two sweeps and "mix4" four sweeps that are no reversals,  *)
(*         "nt" a file that holds no transport measurement                 *)
(*   dim   the ds_type attribute of i_0 (scan dimension); i_0 of a file   *)
(*         whose ds_type is not 1, 2 or 3 has no bias coordinate url       *)
(*   bias  0 current bias, 1 voltage bias                                  *)
(*   voff  the voltage of the superconducting branch (units of 10 uV)      *)
(*   cuts  per sweep, how many points the sweep is shorter than planned    *)
(*   dvdi  "none": no dvdi_j in the file, "same": dvdi_j as the default    *)
(*         derivative gives it, "fwd": dvdi_j taken as forward difference, *)
(*         "lockin": dvdi_j measured by a lock-in amplifier                *)
(***************************************************************************)
MaxCut == 1

SweepsOf(kind) ==
    CASE kind \in {"hs", "hs0"} -> << <<-6, 6, 1>>, <<6, -6, 1>> >>
      [] kind = "q4" -> << <<0, 6, 1>>, <<6, 0, 1>>, <<0, -6, 1>>, <<-6, 0, 1>> >>
      [] kind = "up2" -> << <<0, 6, 1>>, <<0, 6, 1>> >>
      [] kind = "mix4" -> << <<0, 6, 1>>, <<6, 0, 1>>, <<0, -6, 1>>, <<0, -6, 1>> >>
      [] OTHER       -> << <<0, 6, 1>> >>

\* the bias values of one sweep (start, stop, step), stop included
SweepPoints(sw) ==
    [p \in 1..(Abs(sw[2] - sw[1]) \div sw[3] + 1) |->
        sw[1] + Sgn(sw[2] - sw[1]) * sw[3] * (p - 1)]

\* IV characteristic of the sample: flat branch for -2 <= i <= 2 while the
\* bias rises and for -3 <= i <= 2 while it falls, ohmic outside
Junction(i, rising) ==
    IF (IF rising THEN -2 ELSE -3) <= i /\ i <= 2 THEN 0
    ELSE Sgn(i) * (200 + 100 * Abs(i))

\* the sample of a file: the one of kind "hs0" returns to the flat branch
\* at zero bias, where its ohmic branch V = 100 i meets it without a step,
\* and leaves it beyond 2 (rising) or -2 (falling)
Sample(kind, i, rising) ==
    IF kind # "hs0" THEN Junction(i, rising)
    ELSE IF (rising /\ 0 <= i /\ i <= 2) \/ (~rising /\ -2 <= i /\ i <= 0) THEN 0
    ELSE 100 * i

\* number of traces per sweep (outer coordinates of a 2D/3D scan, flattened)
NOuter(dim) == IF dim = 1 THEN 1 ELSE 2

Kind(u) == u[1]
Dim(u) == u[2]
Bias(u) == u[3]
Voff(u) == u[4]
Cuts(u) == u[5]
Dvdi(u) == u[6]

NSweeps(u) == Len(SweepsOf(Kind(u)))

\* entry/data0/i_j and entry/data0/v_j, indexed [outer][point]
FileI(u, j) ==
    LET pts == SweepPoints(SweepsOf(Kind(u))[j])
        L   == Len(pts) - Cuts(u)[j]
    IN  [o \in 1..NOuter(Dim(u)) |-> [p \in 1..L |-> F(pts[p])]]

FileV(u, j) ==
    LET sw  == SweepsOf(Kind(u))[j]
        pts == SweepPoints(sw)
        L   == Len(pts) - Cuts(u)[j]
    IN  [o \in 1..NOuter(Dim(u)) |->
            [p \in 1..L |-> F(Sample(Kind(u), pts[p], sw[1] < sw[2]) + Voff(u) + (o - 1))]]

(***************************************************************************)
(* Library strategies (scipy / numpy), by their documented behaviour       *)
(***************************************************************************)
\* kwargs['window_length'] of the smoothing derivative, scaled to the model's
\* trace lengths (polyorder 1, deriv 1)
window_length == 3

\* the strategy rejects a trace: shorter than the window (ValueError), or a
\* NaN inside the first or last window, where the edge polynomial is fitted
\* (LinAlgError)
ModeRaises1D(y) ==
    \/ Len(y) < window_length
    \/ \E p \in 1..Len(y) :
          /\ (p <= window_length \/ p > Len(y) - window_length)
          /\ IsNaN(y[p])

\* mode(y) for one trace: Savitzky-Golay first derivative, window 3, order 1
Mode1D(y) ==
    LET n == Len(y)
        half == F(2)
    IN  [p \in 1..n |->
            IF p = 1 THEN FDiv(FSub(y[3], y[1]), half)
            ELSE IF p = n THEN FDiv(FSub(y[n], y[n - 2]), half)
            ELSE FDiv(FSub(y[p + 1], y[p - 1]), half)]

\* mode on an array [outer][point] (filter along the last axis)
ModeRaises2D(a) == \E o \in 1..Len(a) : ModeRaises1D(a[o])

Mode2D(a) == [o \in 1..Len(a) |-> Mode1D(a[o])]

\* mode on an array [sweep][outer][point]
ModeRaises3D(a) == \E j \in 1..Len(a) : ModeRaises2D(a[j])

Mode3D(a) == [j \in 1..Len(a) |-> Mode2D(a[j])]

\* elementwise quotient of two arrays of one shape
Quot1D(a, b) == [p \in 1..Len(a) |-> FDiv(a[p], b[p])]

Quot2D(a, b) == [o \in 1..Len(a) |-> Quot1D(a[o], b[o])]

Quot3D(a, b) == [j \in 1..Len(a) |-> Quot2D(a[j], b[j])]

\* '{:s}'.format(e) with e an exception instance: object.__format__ rejects
\* every non-empty format spec, so the except block itself raises
FormatExc == "TypeError"

(***************************************************************************)
(* get_dydx(y, x): the result is [exc, val], exc = "" on a normal return   *)
(***************************************************************************)
Ok(v) == [exc |-> "", val |-> v]

Raise(e) == [exc |-> e, val |-> NONE]

\* y, x one trace
get_dydx_1D(y, x) ==
    IF ModeRaises1D(y) \/ ModeRaises1D(x)
    THEN Raise(FormatExc)
    ELSE Ok(Quot1D(Mode1D(y), Mode1D(x)))

\* y, x arrays [outer][point], as load passes them
get_dydx_2D(y, x) ==
    IF ModeRaises2D(y) \/ ModeRaises2D(x)
    THEN Raise(FormatExc)
    ELSE Ok(Quot2D(Mode2D(y), Mode2D(x)))

\* y, x arrays [sweep][outer][point], as get_dVdI passes them
get_dydx(y, x) ==
    IF ModeRaises3D(y) \/ ModeRaises3D(x)
    THEN Raise(FormatExc)
    ELSE Ok(Quot3D(Mode3D(y), Mode3D(x)))

(***************************************************************************)
(* scipy.signal.find_peaks(x, prominence=P) on one trace                   *)
(***************************************************************************)
\* positions (0-based) of the local maxima: midpoints of the plateaus that
\* rise on the left and fall on the right, never the first or last sample
LocalMaxima(x) ==
    LET n == Len(x)
    IN  {(l + r) \div 2 - 1 : <<l, r>> \in
            {lr \in (2..n - 1) \X (2..n - 1) :
                /\ lr[1] <= lr[2]
                /\ FLt(x[lr[1] - 1], x[lr[1]])
                /\ \A q \in lr[1]..lr[2] : x[q] = x[lr[1]] /\ ~IsNaN(x[q])
                /\ FLt(x[lr[2] + 1], x[lr[2]])}}

\* the lowest value between the peak and the next higher sample on one side
LeftMin(x, k) ==
    LET stops == {q \in 1..k : ~FLe(x[q], x[k + 1])}
        from  == IF stops = {} THEN 1 ELSE (CHOOSE q \in stops : \A r \in stops : r <= q) + 1
    IN  FMinSeq(SubSeq(x, from, k + 1))

RightMin(x, k) ==
    LET stops == {q \in (k + 2)..Len(x) : ~FLe(x[q], x[k + 1])}
        to    == IF stops = {} THEN Len(x) ELSE (CHOOSE q \in stops : \A r \in stops : q <= r) - 1
    IN  FMinSeq(SubSeq(x, k + 1, to))

Prominence(x, k) ==
    LET higher(lm, rm) == IF FGe(lm, rm) THEN lm ELSE rm
    IN  FSub(x[k + 1], higher(LeftMin(x, k), RightMin(x, k)))

RECURSIVE SortedSeq(_)
SortedSeq(S) ==
    IF S = {} THEN <<>>
    ELSE LET m == CHOOSE a \in S : \A b \in S : a <= b
         IN  <<m>> \o SortedSeq(S \ {m})

\* the result of find_peaks: the positions in ascending order and the
\* prominence of each
find_peaks(x, prominence) ==
    LET properties(idx) ==
            [idx |-> idx,
             prominences |-> [q \in 1..Len(idx) |-> Prominence(x, idx[q])],
             found |-> TRUE]
    IN  properties(SortedSeq({k \in LocalMaxima(x) :
                                FGe(Prominence(x, k), F(prominence))}))

\* get_Ic_deriv._peak_finder: [np.array([False]), {}] when nothing was found
peak_finder_wrapped(x, prominence) ==
    LET wrapped(ans) ==
            IF ans.idx = <<>>
            THEN [idx |-> <<0>>, prominences |-> <<>>, found |-> FALSE]
            ELSE ans
    IN  wrapped(find_peaks(x, prominence))

(***************************************************************************)
(* get_sweeptype: the value of self.sweeptype after the call, given the    *)
(* sweeps looked at and the value cur that self.sweeptype had before       *)
(***************************************************************************)
\* variant: the two sweeps compared without reordering the first
ReversalUnordered(a, b) == SubSeq(a, 1, 3) = SubSeq(b, 1, 3)

\* np.array(a)[[1, 0, 2]] == np.array(b)[:3], all components
Reversal(a, b) == <<a[2], a[1], a[3]>> = SubSeq(b, 1, 3)

sweeptype_after(sw, cur) ==
    IF Len(sw) = 2
    THEN (IF Reversal(sw[1], sw[2]) THEN Some(0) ELSE cur)
    ELSE IF Len(sw) = 4
    THEN (IF Reversal(sw[1], sw[2]) /\ Reversal(sw[3], sw[4]) THEN Some(1) ELSE cur)
    ELSE NONE

(***************************************************************************)
(* get_offsets and get_offset                                              *)
(***************************************************************************)
\* default threshold 20e-6 V, in units of 10 uV
threshold_default == 2

InWindow(v, threshold, offset) ==
    /\ FGe(v, FAdd(FNeg(threshold), offset))
    /\ FLe(v, FAdd(threshold, offset))

\* np.copy, then np.place(copy, np.logical_not(mask), np.nan): one trace
Masked(a, x, threshold, offset) ==
    [p \in 1..Len(a) |-> IF InWindow(x[p], threshold, offset) THEN a[p] ELSE NaN]

\* x offset of the outer coordinate o: mean over the sweeps of the nanmean
\* of the masked x
x_offsets_at(x, o, threshold, offset) ==
    Mean([j \in 1..Len(x) |-> NanMean(Masked(x[j][o], x[j][o], threshold, offset))])

\* variant: the half-swing critical branch with the extrema of the
\* retrapping branch
ExtremaPlanSwapped(sweeptype, yr) ==
    IF sweeptype = Some(0)
    THEN [a |-> 1, b |-> 2, amax |-> TRUE]
    ELSE (IF yr THEN [a |-> 2, b |-> 4, amax |-> TRUE]
                ELSE [a |-> 1, b |-> 3, amax |-> TRUE])

\* the two sweeps (1-based) whose extrema give the y offset, and whether the
\* first one contributes its maximum (the second then its minimum)
ExtremaPlan(sweeptype, yr) ==
    IF sweeptype = Some(0)
    THEN (IF yr THEN [a |-> 1, b |-> 2, amax |-> TRUE]
                ELSE [a |-> 1, b |-> 2, amax |-> FALSE])
    ELSE (IF yr THEN [a |-> 2, b |-> 4, amax |-> TRUE]
                ELSE [a |-> 1, b |-> 3, amax |-> TRUE])

y_offsets_at(x, y, o, threshold, offset, plan) ==
    LET extrema(ya, yb) ==
            IF plan.amax
            THEN Mean(<<NanMax(ya), NanMin(yb)>>)
            ELSE Mean(<<NanMin(ya), NanMax(yb)>>)
    IN  extrema(Masked(y[plan.a][o], x[plan.a][o], threshold, offset),
                Masked(y[plan.b][o], x[plan.b][o], threshold, offset))

\* [x_offsets, y_offsets][::int(np.sign(self.bias - .5))]
ByBias(bias, xo, yo) == IF bias = 0 THEN <<yo, xo>> ELSE <<xo, yo>>

\* variant: a custom topology treated as if only x offsets were asked for
get_offsets_guessed(x, y, threshold, offset, yr, sweeptype, bias) ==
    Ok(ByBias(bias,
              [o \in 1..Len(x[1]) |-> x_offsets_at(x, o, threshold, offset)],
              [o \in 1..Len(x[1]) |-> NaN]))

\* the result [exc, val]: val = <<I_offsets, V_offsets>>, each indexed by the
\* outer coordinate
get_offsets_of(x, y, threshold, offset, yr, sweeptype, bias) ==
    IF sweeptype \notin {Some(0), Some(1)}
    THEN Raise("NotImplementedError")
    ELSE LET plan == ExtremaPlan(sweeptype, yr)
             nout == Len(x[1])
         IN  IF plan.b > Len(y)
             THEN Raise("IndexError")
             ELSE Ok(ByBias(bias,
                            [o \in 1..nout |-> x_offsets_at(x, o, threshold, offset)],
                            [o \in 1..nout |->
                                y_offsets_at(x, y, o, threshold, offset, plan)]))

\* np.fromiter(map(np.nanmean, offsets), dtype=float)
get_offset_of(offsets) == <<NanMean(offsets[1]), NanMean(offsets[2])>>

(***************************************************************************)
(* _classify_jump: the tolerance-band rule on one trace                    *)
(***************************************************************************)
\* default tol_offset 20e-6 V, in units of 10 uV
tol_offset_default == 2

window_default == 5

HalfWindow(window) == window \div 2

\* peak1D[0] - (np.arange(window//2) + 1) and peak1D[0] + (...): the
\* positions the two windows of candidate k read
BeforePos(k, window) == [m \in 1..HalfWindow(window) |-> k - m]

AfterPos(k, window) == [m \in 1..HalfWindow(window) |-> k + m]

\* V1D[positions] raises IndexError unless every position is in bounds
ReadRaises(V1D, pos) == \E m \in 1..Len(pos) : ~InBounds(V1D, pos[m])

Read(V1D, pos) == [m \in 1..Len(pos) |-> At(V1D, pos[m])]

\* variant: the band taken as an open interval
InBandOpen(m, V_offset, tol_offset) ==
    /\ FLt(FAdd(FNeg(tol_offset), V_offset), m)
    /\ FLt(m, FAdd(tol_offset, V_offset))

\* (-tol_offset + V_offset) <= m  and  m <= (+tol_offset + V_offset)
InBand(m, V_offset, tol_offset) ==
    /\ FLe(FAdd(FNeg(tol_offset), V_offset), m)
    /\ FLe(m, FAdd(tol_offset, V_offset))

MaskRaises(V1D, k, window) ==
    ReadRaises(V1D, BeforePos(k, window)) \/ ReadRaises(V1D, AfterPos(k, window))

mask_c(V1D, k, V_offset, tol_offset, window) ==
    /\ InBand(Mean(Read(V1D, BeforePos(k, window))), V_offset, tol_offset)
    /\ ~InBand(Mean(Read(V1D, AfterPos(k, window))), V_offset, tol_offset)

\* variant: a retrapping event wherever the two windows differ
mask_differs(V1D, k, V_offset, tol_offset, window) ==
    InBand(Mean(Read(V1D, BeforePos(k, window))), V_offset, tol_offset)
        # InBand(Mean(Read(V1D, AfterPos(k, window))), V_offset, tol_offset)

mask_r(V1D, k, V_offset, tol_offset, window) ==
    /\ ~InBand(Mean(Read(V1D, BeforePos(k, window))), V_offset, tol_offset)
    /\ InBand(Mean(Read(V1D, AfterPos(k, window))), V_offset, tol_offset)

(***************************************************************************)
(* get_2wire_slope_correction on one trace                                 *)
(***************************************************************************)
\* default prominence of the peaks of dV/dI
prominence_default == 100

\* variant: the first two peaks of the trace
FirstTwo(peaks) == {q \in 1..Len(peaks.idx) : q <= 2}

\* positions q (1-based, into peaks.idx) of the two peaks of highest
\* prominence: prominences.argsort()[-2:]
TopTwo(peaks) ==
    LET n == Len(peaks.idx)
        \* q ranks above r: higher prominence, ties by position
        Above(q, r) == \/ FLt(peaks.prominences[r], peaks.prominences[q])
                       \/ (peaks.prominences[r] = peaks.prominences[q] /\ q > r)
    IN  {q \in 1..n : Cardinality({r \in 1..n : Above(r, q)}) < 2}

\* slice(*np.sort(...)) as the pair <<start, stop>> of a[start:stop];
\* a single peak k gives slice(k), that is a[:k]
SliceOf(peaks) ==
    LET bounds(ks) == IF Len(ks) = 1 THEN <<0, ks[1]>> ELSE <<ks[1], ks[2]>>
    IN  bounds(SortedSeq({peaks.idx[q] : q \in TopTwo(peaks)}))

\* a[start:stop] for 0 <= start, stop
Slice(a, sl) ==
    LET stop == IF sl[2] > Len(a) THEN Len(a) ELSE sl[2]
    IN  SubSeq(a, sl[1] + 1, stop)

FProdSum(a, b) == FSum([p \in 1..Len(a) |-> FMul(a[p], b[p])])

\* lin_fit(x, y): least squares (slope, intercept) by QR; np.linalg.inv(r)
\* raises LinAlgError when r is not square or singular
LinFitRaises(x) ==
    \/ Len(x) < 2
    \/ FSub(FMul(F(Len(x)), FProdSum(x, x)), FMul(FSum(x), FSum(x))) = F(0)

lin_fit(x, y) ==
    LET n == F(Len(x))
        line(slope) == <<slope, FDiv(FSub(FSum(y), FMul(slope, FSum(x))), n)>>
    IN  line(FDiv(FSub(FMul(n, FProdSum(x, y)), FMul(FSum(x), FSum(y))),
                  FSub(FMul(n, FProdSum(x, x)), FMul(FSum(x), FSum(x)))))

\* V1D - (popt1D[0] * I1D + popt1D[1])
Subtract(I1D, V1D, popt) ==
    [p \in 1..Len(V1D) |-> FSub(V1D[p], FAdd(FMul(popt[1], I1D[p]), popt[2]))]

\* one trace of V_corr, [exc, val]
slope_correction_1D(I1D, V1D, dVdI1D, prominence) ==
    LET fitted(xs, ys) ==
            IF LinFitRaises(xs)
            THEN Raise("LinAlgError")
            ELSE Ok(Subtract(I1D, V1D, lin_fit(xs, ys)))
        between(sl) == fitted(Slice(I1D, sl), Slice(V1D, sl))
        corrected(peaks) ==
            IF peaks.idx = <<>>
            THEN Raise("TypeError")
            ELSE between(SliceOf(peaks))
    IN  corrected(find_peaks(dVdI1D, prominence))

\* the whole call for the scan dimension of the context, [exc, val]; in the
\* 2D and 3D branches np.array(..., dtype=float) is handed a list of map
\* objects and raises TypeError
slope_correction(scan_dim, I_, V_, dVdI_, prominence) ==
    IF scan_dim = Some(1)
    THEN LET collected(rows) ==
                 LET bad == {j \in 1..Len(rows) : rows[j].exc # ""}
                 IN  IF bad = {}
                     THEN Ok([j \in 1..Len(rows) |-> <<rows[j].val>>])
                     ELSE Raise(rows[CHOOSE j \in bad : \A i \in bad : j <= i].exc)
         IN  collected([j \in 1..Len(dVdI_) |->
                         slope_correction_1D(I_[j][1], V_[j][1], dVdI_[j][1],
                                             prominence)])
    ELSE IF scan_dim \in {Some(2), Some(3)}
    THEN Raise("TypeError")
    ELSE Raise("ValueError")

(***************************************************************************)
(* _classify_jump on the whole data set                                    *)
(***************************************************************************)
HasNaN(a) ==
    \E j \in 1..Len(a) : \E o \in 1..Len(a[j]) : \E p \in 1..Len(a[j][o]) :
        IsNaN(a[j][o][p])

\* Y_name: the first local variable of the caller that np.array_equal finds
\* equal to Y; np.array_equal is False for every array that holds a NaN, and
\* [...][0] of the empty list raises IndexError
LabelRaises(Y_) == HasNaN(Y_)

Label(I_, V_, Y_, caller_label) ==
    IF I_ = Y_ THEN "I" ELSE IF V_ = Y_ THEN "V" ELSE caller_label

\* variant: critical currents searched in every sweep of either topology
SweepsEvery(sweeptype, n) == 1..n

\* the sweeps (1-based) searched for critical and for retrapping currents
SweepsC(sweeptype, n) ==
    IF sweeptype = Some(0) THEN 1..n ELSE {j \in 1..n : j % 2 = 1}

SweepsR(sweeptype, n) ==
    IF sweeptype = Some(0) THEN 1..n ELSE {j \in 1..n : j % 2 = 0}

\* the candidates of one trace that a mask keeps, in ascending order
CritOf(V1D, pk, V_offset, tol_offset, window) ==
    SelectSeq(pk.idx, LAMBDA k : mask_c(V1D, k, V_offset, tol_offset, window))

RetrapOf(V1D, pk, V_offset, tol_offset, window) ==
    SelectSeq(pk.idx, LAMBDA k : mask_r(V1D, k, V_offset, tol_offset, window))

\* evaluating a mask of one trace raises IndexError
MasksRaise(V1D, pk, window) ==
    \E q \in 1..Len(pk.idx) : MaskRaises(V1D, pk.idx[q], window)

\* what I_r1D[...[0] + 1] adds to the position in the copy for scan_dim
RetrapShift(scan_dim) == IF scan_dim = Some(3) THEN 0 ELSE 1

\* one entry of I_cs or I_rs, [exc, val]; kept is the masked candidate list
PickCurrent(I1D, V1D, pk, kept, shift, window) ==
    IF MasksRaise(V1D, pk, window) THEN Raise("IndexError")
    ELSE IF kept = <<>> THEN Raise("IndexError")
    ELSE IF ~pk.found /\ shift = 0 THEN Raise("ValueError")
    ELSE IF ~InBounds(I1D, kept[1] + shift) THEN Raise("IndexError")
    ELSE Ok(At(I1D, kept[1] + shift))

\* the first exception of a family of results [exc, val] indexed by the
\* pairs <<sweep, outer>> in iteration order; IndexError is raised while
\* the entries are computed, ValueError when the array is built from them
FirstExc(res, js, nout) ==
    LET slots == {<<j, o>> : j \in js, o \in 1..nout}
        ie == {s \in slots : res[s].exc = "IndexError"}
        ve == {s \in slots : res[s].exc = "ValueError"}
    IN  IF ie # {} THEN "IndexError" ELSE IF ve # {} THEN "ValueError" ELSE ""

\* the property record of one trace
PropertiesOf(I1D, V1D, Y1D, pk, label) ==
    [index |-> pk.idx,
     I |-> [q \in 1..Len(pk.idx) |-> At(I1D, pk.idx[q])],
     V |-> [q \in 1..Len(pk.idx) |-> At(V1D, pk.idx[q])],
     Y |-> [q \in 1..Len(pk.idx) |-> At(Y1D, pk.idx[q])],
     label |-> label,
     prominences |-> pk.prominences]

\* the record of the custom branch when indexing raised IndexError
NanProperties(label) ==
    [index |-> <<NaN>>, I |-> <<NaN>>, V |-> <<NaN>>, Y |-> <<NaN>>,
     label |-> label, prominences |-> <<>>]

\* I1D[np.array([False])]: a boolean index of length 1 on a longer trace
PropertiesRaise(I1D, pk) == ~pk.found /\ Len(I1D) # 1

\* the slots <<sweep, outer>> of js whose mask was evaluated: the masks are
\* lazy maps, consumed trace by trace until the first IndexError, and a mask
\* whose own evaluation raised has no value
Evaluated(res, js, nout, V_, peaks, window) ==
    LET slots == {<<j, o>> : j \in js, o \in 1..nout}
        Before(t, s) == t[1] < s[1] \/ (t[1] = s[1] /\ t[2] < s[2])
    IN  {s \in slots :
            /\ \A t \in slots : Before(t, s) => res[t].exc # "IndexError"
            /\ ~MasksRaise(V_[s[1]][s[2]], peaks[s[1]][s[2]], window)}

\* The classification after the label and the offset are known.
\* Result [exc, val, steps, locals]: val = <<I_cs, properties>> or
\* <<I_cs, I_rs, properties>>; I_cs and I_rs are indexed [sweep][outer];
\* locals holds the candidate positions peaks per slot <<sweep, outer>> and
\* the masks masks_c and masks_r as far as they were evaluated, per slot one
\* boolean per candidate
classify(I_, V_, Y_, peaks, label, V_offset, sweeptype, scan_dim, tol_offset, window, Ir) ==
    LET ns   == Len(V_)
        nout == Len(V_[1])
        all  == {<<j, o>> : j \in 1..ns, o \in 1..nout}
    IN  IF sweeptype \notin {Some(0), Some(1)}
        THEN IF scan_dim \notin {Some(1), Some(2), Some(3)}
             THEN [exc |-> "NotImplementedError", val |-> NONE, steps |-> <<>>,
                   locals |-> <<>>]
             ELSE [exc |-> "",
                   val |-> <<[j \in 1..ns |-> [o \in 1..nout |->
                               IF PropertiesRaise(I_[j][o], peaks[j][o])
                               THEN NanProperties(label)
                               ELSE PropertiesOf(I_[j][o], V_[j][o], Y_[j][o],
                                                 peaks[j][o], label)]]>>,
                   steps |-> <<"properties">>, locals |-> <<>>]
        ELSE IF scan_dim \notin {Some(1), Some(2), Some(3)}
        THEN [exc |-> "ValueError", val |-> NONE, steps |-> <<>>, locals |-> <<>>]
        ELSE
        LET jc == SweepsC(sweeptype, ns)
            jr == SweepsR(sweeptype, ns)
            Vo == Val(V_offset)
            result(ec, er, ep, lo, I_cs, I_rs, props) ==
                IF ec # "" THEN [exc |-> ec, val |-> NONE, steps |-> <<"masks_c">>,
                                 locals |-> lo]
                ELSE IF er # "" THEN [exc |-> er, val |-> NONE,
                                      steps |-> <<"masks_c", "masks_r">>,
                                      locals |-> lo]
                ELSE IF ep # "" THEN [exc |-> ep, val |-> NONE,
                                      steps |-> <<"masks_c", "masks_r", "properties">>,
                                      locals |-> lo]
                ELSE [exc |-> "",
                      val |-> IF Ir THEN <<I_cs, I_rs, props>> ELSE <<I_cs, props>>,
                      steps |-> <<"masks_c", "masks_r", "properties">>,
                      locals |-> lo]
            masks(rc, rr, ec) ==
                [peaks |-> [s \in all |-> peaks[s[1]][s[2]].idx],
                 masks_c |->
                    [s \in Evaluated(rc, jc, nout, V_, peaks, window) |->
                        [q \in 1..Len(peaks[s[1]][s[2]].idx) |->
                            mask_c(V_[s[1]][s[2]], peaks[s[1]][s[2]].idx[q], Vo,
                                   tol_offset, window)]],
                 masks_r |->
                    [s \in (IF ec # "" THEN {}
                            ELSE Evaluated(rr, jr, nout, V_, peaks, window)) |->
                        [q \in 1..Len(peaks[s[1]][s[2]].idx) |->
                            mask_r(V_[s[1]][s[2]], peaks[s[1]][s[2]].idx[q], Vo,
                                   tol_offset, window)]]]
            raised(rc, rr, ec) ==
                result(ec, FirstExc(rr, jr, nout),
                       IF \E s \in all :
                            PropertiesRaise(I_[s[1]][s[2]], peaks[s[1]][s[2]])
                       THEN "IndexError" ELSE "",
                       masks(rc, rr, ec),
                       [q \in 1..Cardinality(jc) |-> [o \in 1..nout |->
                            rc[<<SortedSeq(jc)[q], o>>].val]],
                       [q \in 1..Cardinality(jr) |-> [o \in 1..nout |->
                            rr[<<SortedSeq(jr)[q], o>>].val]],
                       [j \in 1..ns |-> [o \in 1..nout |->
                            PropertiesOf(I_[j][o], V_[j][o], Y_[j][o], peaks[j][o],
                                         label)]])
            picked(rc, rr) == raised(rc, rr, FirstExc(rc, jc, nout))
        IN  picked([s \in all |->
                     PickCurrent(I_[s[1]][s[2]], V_[s[1]][s[2]], peaks[s[1]][s[2]],
                                 CritOf(V_[s[1]][s[2]], peaks[s[1]][s[2]], Vo,
                                        tol_offset, window),
                                 0, window)],
                   [s \in all |->
                     PickCurrent(I_[s[1]][s[2]], V_[s[1]][s[2]], peaks[s[1]][s[2]],
                                 RetrapOf(V_[s[1]][s[2]], peaks[s[1]][s[2]], Vo,
                                          tol_offset, window),
                                 RetrapShift(scan_dim), window)])

(***************************************************************************)
(* load: assembling the arrays of the sweeps                               *)
(***************************************************************************)
\* what np.empty may hold: the memory is not initialised
UninitFills == {"zero", "nan", "ramp"}

UninitValue(g, p) ==
    IF g = "zero" THEN F(0) ELSE IF g = "nan" THEN NaN ELSE F(p)

\* one row [outer][point] of an array fresh from np.empty
UninitRow(g, nout, npts) == [o \in 1..nout |-> [p \in 1..npts |-> UninitValue(g, p)]]

\* shape of i_j without the sweep-point axis
OuterShape(dim) == IF dim = 1 THEN <<>> ELSE IF dim = 2 THEN <<2>> ELSE <<1, 2>>

RECURSIVE MaxOf(_)
MaxOf(S) == LET x == CHOOSE x \in S : TRUE
            IN  IF S = {x} THEN x
                ELSE LET m == MaxOf(S \ {x}) IN IF x > m THEN x ELSE m

\* np.max([i_j.shape for j ...], axis=0): the sweep-point entry
MaxPoints(u) == MaxOf({Len(FileI(u, j)[1]) : j \in 1..NSweeps(u)})

\* np.insert(np.diff([i.shape, shape[1:]], axis=0), (0,), np.zeros(scan_dim))
\*   .reshape(scan_dim, 2): row r is the (before, after) padding of axis r
pad_width(dim, ishape, shape) ==
    LET diff == [a \in 1..Len(ishape) |-> shape[a] - ishape[a]]
        flat == [a \in 1..dim |-> 0] \o diff
    IN  [r \in 1..dim |-> <<flat[2 * r - 1], flat[2 * r]>>]

\* variant: the padding put in front of the values
PadRowInFront(row, pw) ==
    [o \in 1..Len(row) |->
        [p \in 1..pw[2] |-> NaN] \o row[o] \o [p \in 1..pw[1] |-> NaN]]

\* np.pad(a, pad_width, 'constant', constant_values=np.nan) along the
\* sweep-point axis of a row [outer][point]
PadRow(row, pw) ==
    [o \in 1..Len(row) |->
        [p \in 1..pw[1] |-> NaN] \o row[o] \o [p \in 1..pw[2] |-> NaN]]

\* entry/<folder>/dvdi_j as the measurement stored it
FwdDiff1D(y, x) ==
    [p \in 1..Len(y) |->
        LET q == IF p = Len(y) THEN p - 1 ELSE p
        IN  FDiv(FSub(y[q + 1], y[q]), FSub(x[q + 1], x[q]))]

\* differential resistance a lock-in measures at bias i: three features of
\* different height
LockIn(i) ==
    CASE i = -4 -> 150 [] i = -2 -> 300 [] i = 4 -> 400 [] OTHER -> 0

FileDvdi(u, j) ==
    IF Dvdi(u) = "same"
    THEN get_dydx_2D(FileV(u, j), FileI(u, j)).val
    ELSE IF Dvdi(u) = "lockin"
    THEN [o \in 1..NOuter(Dim(u)) |->
            [p \in 1..Len(FileI(u, j)[o]) |-> F(LockIn(FileI(u, j)[o][p][1]))]]
    ELSE [o \in 1..NOuter(Dim(u)) |-> FwdDiff1D(FileV(u, j)[o], FileI(u, j)[o])]

\* the dvdi of sweep j inside the loop of load, [exc, val]: read from the
\* file, or on KeyError get_dydx(x=self.I[j], y=self.V[j]) of the rows as
\* they are at that moment, which np.empty left uninitialised
LoopDvdi(u, j, g) ==
    IF Dvdi(u) # "none"
    THEN Ok(FileDvdi(u, j))
    ELSE LET row == UninitRow(g, NOuter(Dim(u)), MaxPoints(u))
         IN  get_dydx_2D(row, row)

\* self.dVdI[j] = np.pad(dvdi, pad_width, ...) raises ValueError when the
\* padded dvdi (rows [outer][point]) has not the npts points of self.dVdI[j]
Misfit(dvdi, pw, npts) == pw[1] + Len(dvdi[1]) + pw[2] # npts

\* the arrays after the loop, [exc, I, V, dVdI]; dv is the argument dVdI
\* (truthy or False), g what np.empty left in memory
Assemble(u, dv, g) ==
    LET ns    == NSweeps(u)
        nout  == NOuter(Dim(u))
        npts  == MaxPoints(u)
        shape == OuterShape(Dim(u)) \o <<npts>>
        \* the loop stops at the first sweep whose derivative raises (before
        \* the sweep is stored) or whose padded derivative does not fit (after
        \* I[j] and V[j] are stored)
        stopped(loop, pw, empty, stop) ==
            [exc  |-> IF stop > ns THEN ""
                      ELSE IF loop[stop].exc # "" THEN loop[stop].exc
                      ELSE "ValueError",
             I    |-> [j \in 1..ns |->
                        IF j < stop \/ (j = stop /\ loop[j].exc = "")
                        THEN PadRow(FileI(u, j), pw[j]) ELSE empty],
             V    |-> [j \in 1..ns |->
                        IF j < stop \/ (j = stop /\ loop[j].exc = "")
                        THEN PadRow(FileV(u, j), pw[j]) ELSE empty],
             dVdI |-> [j \in 1..ns |->
                        IF j < stop /\ dv THEN PadRow(loop[j].val, pw[j])
                        ELSE empty]]
        looped(loop, pw, empty) ==
            LET fails == {j \in 1..ns : dv /\ (loop[j].exc # ""
                                               \/ Misfit(loop[j].val, pw[j], npts))}
            IN  stopped(loop, pw, empty,
                        IF fails = {} THEN ns + 1
                        ELSE CHOOSE j \in fails : \A i \in fails : j <= i)
    IN  looped([j \in 1..ns |-> LoopDvdi(u, j, g)],
               [j \in 1..ns |->
                   pad_width(Dim(u), OuterShape(Dim(u)) \o <<Len(FileI(u, j)[1])>>,
                             shape)[Dim(u)]],
               UninitRow(g, nout, npts))

(***************************************************************************)
(* The measurement files at hand                                           *)
(***************************************************************************)
\* sweeps that all have their planned length
Flat(kind) == [j \in 1..Len(SweepsOf(kind)) |-> 0]

\* files of the analysis sessions
UUIDs ==
    {<<"hs", 1, 0, 1, Flat("hs"), dvdi>> : dvdi \in {"same", "fwd"}}
    \cup {<<"q4", 1, 0, 1, Flat("q4"), "same">>,
          <<"hs", 2, 0, 1, Flat("hs"), "same">>,
          <<"cu", 1, 0, 0, Flat("cu"), "same">>,
          <<"nt", 1, 0, 0, Flat("nt"), "none">>}

\* files of every sweep topology
SweepFiles ==
    {<<kind, 1, 0, 0, Flat(kind), "same">> : kind \in {"hs", "q4", "cu", "up2", "mix4", "nt"}}

\* files of both topologies, scan dimensions 1 and 2, both bias modes
OffsetFiles ==
    {<<kind, dim, b, 1, Flat(kind), "same">> :
        kind \in {"hs", "q4"}, dim \in {1, 2}, b \in {0, 1}}

\* files whose sweeps were cut short by up to MaxCut points
RaggedFiles ==
    {<<"hs", dim, 0, 0, <<c1, c2>>, dvdi>> :
        dim \in {1, 2, 3}, c1 \in 0..MaxCut, c2 \in 0..MaxCut, dvdi \in {"same", "none"}}

\* files for the order of the analysis steps
OrderFiles ==
    {<<"hs", 1, 0, 1, Flat("hs"), dvdi>> : dvdi \in {"same", "fwd", "none"}}
    \cup {<<"q4", 1, 0, 1, Flat("q4"), "fwd">>, <<"hs", 2, 0, 1, Flat("hs"), "fwd">>}

\* files of classified and of unclassified sweep topology
CustomFiles ==
    {<<kind, 1, 0, 1, Flat(kind), "same">> : kind \in {"hs", "cu", "mix4"}}

\* files whose i_0 carries a ds_type that is no scan dimension (load stops
\* before it reads their data), and one of UUIDs that is regular
DimFiles ==
    {<<"hs", dim, 0, 1, Flat("hs"), "same">> : dim \in {0, 1, 4}}

\* arrays (sweep, point) a caller holds outside the context
OwnArrays ==
    {[I |-> [j \in 1..2 |-> FileI(<<"hs", 1, 0, v, Flat("hs"), "same">>, j)],
      V |-> [j \in 1..2 |-> FileV(<<"hs", 1, 0, v, Flat("hs"), "same">>, j)]] :
        v \in {0, 1}}

\* files whose traces hold one, two or three peaks of dVdI
SlopeFiles ==
    {<<kind, 1, 0, voff, Flat(kind), dvdi>> :
        kind \in {"hs", "q4"}, voff \in {0, 1}, dvdi \in {"same", "fwd", "lockin"}}

\* scans of every dimension with sweeps of equal and of unequal length, a
\* sample that returns to the flat branch without a step, and a voltage
\* biased measurement
ScanFiles ==
    {u \in RaggedFiles : Dvdi(u) = "same"}
    \cup {<<"hs0", 1, 0, 0, Flat("hs0"), "same">>, <<"hs", 1, 1, 1, Flat("hs"), "same">>}

AllFiles ==
    UUIDs \cup SweepFiles \cup OffsetFiles \cup RaggedFiles \cup OrderFiles
    \cup CustomFiles \cup SlopeFiles \cup ScanFiles

\* what load reads and assembles, per file, dVdI argument and memory content
\* (a table: the comparison enumerates it once and for all)
Assembled ==
    LET table(t) == IF t = t THEN t ELSE t
    IN  table([u \in AllFiles |-> [dv \in BOOLEAN |-> [g \in UninitFills |->
                Assemble(u, dv, g)]]])

(***************************************************************************)
(* The analysis context                                                    *)
(***************************************************************************)
VARIABLES
    uuid, df, m_type, scan_dim, sweeptype, sweeps, bias,   \* self.<name>
    I, V, V_corr, dVdI,
    I_offsets, V_offsets, I_offset, V_offset,
    handles,   \* the number of Data objects opened and not released
    outp_stat, sour_lev,   \* the current source: what it answers to :outp?
                           \* (1 or 0) and its :sour:lev in uA
    last    \* the last call: operation, arguments, exception, return value

ctx == <<uuid, df, handles, m_type, scan_dim, sweeptype, sweeps, bias, I, V, V_corr,
         dVdI, I_offsets, V_offsets, I_offset, V_offset>>

\* the Yokogawa GS210 behind the driver
gs210 == <<outp_stat, sour_lev>>

vars == <<ctx, gs210, last>>

offs == <<I_offsets, V_offsets, I_offset, V_offset>>

\* the record of a call; again tells that the call before was the same
\* operation, steps lists the stages the call went through, locals keeps
\* local variables of the call
CalledWith(op, args, exc, ret, steps, locals) ==
    last' = [op |-> op, args |-> args, exc |-> exc, ret |-> ret,
             steps |-> steps, locals |-> locals, again |-> last.op = op]

Called(op, args, exc, ret, steps) == CalledWith(op, args, exc, ret, steps, <<>>)

\* __init__
Init ==
    /\ uuid = NONE /\ df = NONE /\ m_type = NONE /\ scan_dim = NONE
    /\ sweeptype = NONE /\ sweeps = NONE /\ bias = NONE
    /\ I = NONE /\ V = NONE /\ V_corr = NONE /\ dVdI = NONE
    /\ I_offsets = NONE /\ V_offsets = NONE /\ I_offset = NONE /\ V_offset = NONE
    /\ handles = 0
    /\ outp_stat = 0 /\ sour_lev = 0
    /\ last = [op |-> "__init__", args |-> <<>>, exc |-> "", ret |-> <<>>,
               steps |-> <<>>, locals |-> <<>>, again |-> FALSE]

\* get_bias: chr(self.scan_dim + 119) names the url attribute x_ds_url,
\* y_ds_url or z_ds_url; for any other scan dimension the attribute is
\* absent and the lookup of 'N' in {'i': 0, 'v': 1} raises KeyError
BiasRaises(dim) == dim \notin {1, 2, 3}

\* variant: load never reinitialises the context
NeverReloads(u) == FALSE

\* uuid != self.uuid and self.uuid is not None: load calls self.__init__()
Reloads(u) == uuid # Some(u) /\ uuid # NONE

\* the most Data objects the interpreter leaves unreleased
MaxHandles == 3

\* Data objects open once the context has let go of n of them: nothing in
\* the class closes a Data object, so one that is no longer referenced is
\* released when the interpreter finalises it (fin) and stays open otherwise
Dropped(open, n, fin) == IF fin THEN open - n ELSE open

\* load(uuid=u, dVdI=dv) with g what np.empty leaves in the new arrays and
\* fin whether the interpreter finalises the Data object load lets go of
load(u, dv, g, fin) ==
    LET reset == Reloads(u)
        keep(v) == IF reset THEN NONE ELSE v
        steps == IF reset THEN <<"__init__">> ELSE <<>>
        held == IF df = NONE THEN 0 ELSE 1
        \* __init__ lets go of self.df before Data(self.path) is called, the
        \* assignment self.df = Data(self.path) after it
        before == IF reset THEN Dropped(handles, held, fin) ELSE handles
        read(a) ==
            /\ I' = Some(a.I) /\ V' = Some(a.V) /\ dVdI' = Some(a.dVdI)
            /\ CalledWith("load", <<u, dv>>, a.exc, <<>>, steps, [open |-> before + 1])
        raised(e) == CalledWith("load", <<u, dv>>, e, <<>>, steps, [open |-> before + 1])
    IN  /\ fin \/ handles < MaxHandles
        /\ uuid' = Some(u)
        /\ df' = Some(u)
        /\ handles' = IF reset THEN before + 1 ELSE Dropped(handles + 1, held, fin)
        /\ UNCHANGED gs210
        /\ I_offsets' = keep(I_offsets) /\ V_offsets' = keep(V_offsets)
        /\ I_offset' = keep(I_offset) /\ V_offset' = keep(V_offset)
        /\ V_corr' = keep(V_corr)
        /\ IF Kind(u) = "nt"
           THEN /\ m_type' = Some("other")
                /\ scan_dim' = keep(scan_dim) /\ sweeptype' = keep(sweeptype)
                /\ sweeps' = keep(sweeps) /\ bias' = keep(bias)
                /\ I' = keep(I) /\ V' = keep(V) /\ dVdI' = keep(dVdI)
                /\ raised("ValueError")
           ELSE IF BiasRaises(Dim(u))
           THEN /\ m_type' = Some("transport")
                /\ scan_dim' = Some(Dim(u))
                /\ sweeptype' = keep(sweeptype)
                /\ sweeps' = keep(sweeps) /\ bias' = keep(bias)
                /\ I' = keep(I) /\ V' = keep(V) /\ dVdI' = keep(dVdI)
                /\ raised("KeyError")
           ELSE /\ m_type' = Some("transport")
                /\ scan_dim' = Some(Dim(u))
                /\ bias' = Some(Bias(u))
                /\ sweeps' = Some(SweepsOf(Kind(u)))
                /\ sweeptype' = sweeptype_after(SweepsOf(Kind(u)), keep(sweeptype))
                /\ read(Assembled[u][dv][g])

\* get_sweeptype(sweeps=arg), arg NONE or Some(list of sweeps)
get_sweeptype(arg) ==
    LET sw == IF arg = NONE THEN sweeps ELSE arg
    IN  IF sw = NONE
        THEN /\ Called("get_sweeptype", <<arg>>, "TypeError", <<>>, <<>>)
             /\ UNCHANGED <<ctx, gs210>>
        ELSE /\ sweeptype' = sweeptype_after(Val(sw), sweeptype)
             /\ Called("get_sweeptype", <<arg>>, "", <<sweeptype'>>, <<>>)
             /\ UNCHANGED <<gs210, uuid, df, handles, m_type, scan_dim, sweeps, bias, I, V, V_corr,
                            dVdI, offs>>

\* get_dVdI() with the default arguments
get_dVdI ==
    LET return(r) ==
            /\ dVdI' = IF r.exc = "" THEN Some(r.val) ELSE dVdI
            /\ Called("get_dVdI", <<>>, r.exc, r.val, <<>>)
    IN  /\ return(IF I = NONE \/ V = NONE THEN Raise(FormatExc)
                  ELSE get_dydx(Val(V), Val(I)))
        /\ UNCHANGED <<gs210, uuid, df, handles, m_type, scan_dim, sweeptype, sweeps, bias, I, V,
                       V_corr, offs>>

\* get_dydx(y, x) on one trace, x NONE or Some(trace)
get_dydx_call(y, x) ==
    LET return(r) == Called("get_dydx", <<y, x>>, r.exc, r.val, <<>>)
    IN  /\ return(IF x = NONE
                  THEN (IF ModeRaises1D(y) THEN Raise(FormatExc) ELSE Ok(Mode1D(y)))
                  ELSE get_dydx_1D(y, Val(x)))
        /\ UNCHANGED <<ctx, gs210>>

\* the result of self.get_offsets(...): xy = TRUE is the call with x=V, y=I,
\* FALSE leaves x and y to their defaults [self.V, self.I][self.bias] and
\* [self.I, self.V][self.bias]
OffsetsCall(xy, threshold, offset, yr) ==
    IF I = NONE \/ V = NONE \/ bias = NONE THEN Raise("TypeError")
    ELSE LET x == IF xy \/ Val(bias) = 0 THEN Val(V) ELSE Val(I)
             y == IF xy \/ Val(bias) = 0 THEN Val(I) ELSE Val(V)
         IN  get_offsets_of(x, y, F(threshold), F(offset), yr, sweeptype, Val(bias))

get_offsets(xy, threshold, offset, yr) ==
    LET return(r) ==
            /\ I_offsets' = IF r.exc = "" THEN Some(r.val[1]) ELSE I_offsets
            /\ V_offsets' = IF r.exc = "" THEN Some(r.val[2]) ELSE V_offsets
            /\ Called("get_offsets", <<xy, threshold, offset, yr>>, r.exc, r.val,
                      <<>>)
    IN  /\ return(OffsetsCall(xy, threshold, offset, yr))
        /\ UNCHANGED <<gs210, uuid, df, handles, m_type, scan_dim, sweeptype, sweeps, bias, I, V,
                       V_corr, dVdI, I_offset, V_offset>>

\* variant: get_offset with the mask placed into self.I and self.V themselves
get_offset_in_place(xy, threshold, offset, yr) ==
    LET masked(a, x) ==
            [j \in 1..Len(a) |-> [o \in 1..Len(a[j]) |->
                Masked(a[j][o], x[j][o], F(threshold), F(offset))]]
        return(r, m) ==
            /\ I_offsets' = IF r.exc = "" THEN Some(r.val[1]) ELSE I_offsets
            /\ V_offsets' = IF r.exc = "" THEN Some(r.val[2]) ELSE V_offsets
            /\ I_offset' = IF r.exc = "" THEN Some(m[1]) ELSE I_offset
            /\ V_offset' = IF r.exc = "" THEN Some(m[2]) ELSE V_offset
            /\ I' = IF r.exc = "" THEN Some(masked(Val(I), Val(V))) ELSE I
            /\ V' = IF r.exc = "" THEN Some(masked(Val(V), Val(V))) ELSE V
            /\ Called("get_offset", <<xy, threshold, offset, yr>>, r.exc, m, <<>>)
        mean(r) == return(r, IF r.exc = "" THEN get_offset_of(r.val) ELSE NONE)
    IN  /\ mean(OffsetsCall(xy, threshold, offset, yr))
        /\ UNCHANGED <<gs210, uuid, df, handles, m_type, scan_dim, sweeptype, sweeps, bias,
                       V_corr, dVdI>>

get_offset(xy, threshold, offset, yr) ==
    LET return(r, m) ==
            /\ I_offsets' = IF r.exc = "" THEN Some(r.val[1]) ELSE I_offsets
            /\ V_offsets' = IF r.exc = "" THEN Some(r.val[2]) ELSE V_offsets
            /\ I_offset' = IF r.exc = "" THEN Some(m[1]) ELSE I_offset
            /\ V_offset' = IF r.exc = "" THEN Some(m[2]) ELSE V_offset
            /\ Called("get_offset", <<xy, threshold, offset, yr>>, r.exc, m, <<>>)
        mean(r) == return(r, IF r.exc = "" THEN get_offset_of(r.val) ELSE NONE)
    IN  /\ mean(OffsetsCall(xy, threshold, offset, yr))
        /\ UNCHANGED <<gs210, uuid, df, handles, m_type, scan_dim, sweeptype, sweeps, bias, I, V,
                       V_corr, dVdI>>

\* variant: the corrected voltage written over self.V
slope_correction_in_place ==
    LET return(r) ==
            /\ V' = IF r.exc = "" THEN Some(r.val) ELSE V
            /\ V_corr' = IF r.exc = "" THEN Some(r.val) ELSE V_corr
            /\ Called("get_2wire_slope_correction", <<>>, r.exc, r.val, <<>>)
    IN  /\ return(IF scan_dim = NONE THEN Raise("ValueError")
                  ELSE slope_correction(scan_dim, Val(I), Val(V), Val(dVdI),
                                        prominence_default))
        /\ UNCHANGED <<gs210, uuid, df, handles, m_type, scan_dim, sweeptype, sweeps, bias, I,
                       dVdI, offs>>

\* get_2wire_slope_correction() with the default arguments
get_2wire_slope_correction ==
    LET return(r) ==
            /\ V_corr' = IF r.exc = "" THEN Some(r.val) ELSE V_corr
            /\ Called("get_2wire_slope_correction", <<>>, r.exc, r.val, <<>>)
    IN  /\ return(IF scan_dim = NONE THEN Raise("ValueError")
                  ELSE slope_correction(scan_dim, Val(I), Val(V), Val(dVdI),
                                        prominence_default))
        /\ UNCHANGED <<gs210, uuid, df, handles, m_type, scan_dim, sweeptype, sweeps, bias, I, V,
                       dVdI, offs>>

\* variant: the offset estimated whenever none is cached
OffsetMissing(vo, swt) == vo = NONE

\* if self.V_offset is None and self.sweeptype in [0, 1]
NeedsOffset(vo, swt) == vo = NONE /\ swt \in {Some(0), Some(1)}

\* _classify_jump(I, V, Y, peaks, ...) called from a detector whose local
\* variable caller_label holds Y.  Result [exc, val, steps, locals, offsets],
\* where offsets = <<I_offsets, V_offsets, I_offset, V_offset>> after the call
classify_jump(I_, V_, Y_, peaks, caller_label, tol_offset, window, Ir) ==
    IF LabelRaises(Y_)
    THEN [exc |-> "IndexError", val |-> NONE, steps |-> <<"label">>,
          locals |-> <<>>, offsets |-> offs]
    ELSE
    LET label == Label(I_, V_, Y_, caller_label)
        lazy  == NeedsOffset(V_offset, sweeptype)
        classified(after, c) ==
            [exc |-> c.exc, val |-> c.val,
             steps |-> <<"label">> \o (IF lazy THEN <<"get_offset">> ELSE <<>>)
                       \o c.steps,
             locals |-> c.locals,
             offsets |-> after]
        with(after) ==
            classified(after,
                       classify(I_, V_, Y_, peaks, label, after[4], sweeptype,
                                scan_dim, F(tol_offset), window, Ir))
        means(o, m) == <<Some(o.val[1]), Some(o.val[2]), Some(m[1]), Some(m[2])>>
        estimated(o) ==
            IF lazy /\ o.exc # ""
            THEN [exc |-> o.exc, val |-> NONE, steps |-> <<"label", "get_offset">>,
                  locals |-> <<>>, offsets |-> offs]
            ELSE with(IF lazy THEN means(o, get_offset_of(o.val)) ELSE offs)
    IN  estimated(get_offsets_of(V_, I_, F(threshold_default), F(0), FALSE,
                                 sweeptype, Val(bias)))

\* get_Ic_deriv(V=..., Ir=..., tol_offset=..., window=..., prominence=...):
\* Vgiven tells whether the caller passed V=self.V; I and dVdI are left to
\* their defaults
get_Ic_deriv(Vgiven, Ir, tol_offset, window, prominence) ==
    LET args == <<Vgiven, Ir, tol_offset, window, prominence>>
    IN  IF ~Vgiven \/ V = NONE
        THEN /\ Called("get_Ic_deriv", args, "AttributeError", <<>>, <<>>)
             /\ UNCHANGED <<ctx, gs210>>
        ELSE IF scan_dim \notin {Some(1), Some(2), Some(3)}
        THEN /\ Called("get_Ic_deriv", args, "ValueError", <<>>, <<>>)
             /\ UNCHANGED <<ctx, gs210>>
        ELSE
        LET Y_ == Val(dVdI)
            return(r) ==
                /\ I_offsets' = r.offsets[1] /\ V_offsets' = r.offsets[2]
                /\ I_offset' = r.offsets[3] /\ V_offset' = r.offsets[4]
                /\ CalledWith("get_Ic_deriv", args, r.exc, r.val,
                              <<"peaks">> \o r.steps, r.locals)
                /\ UNCHANGED <<gs210, uuid, df, handles, m_type, scan_dim, sweeptype, sweeps, bias,
                               I, V, V_corr, dVdI>>
        IN  return(classify_jump(Val(I), Val(V), Y_,
                                 [j \in 1..Len(Y_) |-> [o \in 1..Len(Y_[j]) |->
                                     peak_finder_wrapped(Y_[j][o], prominence)]],
                                 "dVdI", tol_offset, window, Ir))

\* get_Ic_dft(V=...): the single-trace test reads V.shape before the default
\* is substituted, and the whole-dataset branch calls _get_deriv_dft()
\* without its argument
get_Ic_dft(Vgiven) ==
    /\ Called("get_Ic_dft", <<Vgiven>>,
              IF ~Vgiven \/ V = NONE THEN "AttributeError"
              ELSE IF scan_dim \notin {Some(1), Some(2), Some(3)} THEN "ValueError"
              ELSE "TypeError",
              <<>>,
              IF ~Vgiven \/ V = NONE \/ scan_dim \notin {Some(1), Some(2), Some(3)}
              THEN <<>> ELSE <<"detrend">>)
    /\ UNCHANGED <<ctx, gs210>>

\* the whole-dataset result of get_Ic_threshold, [exc, val]: I_cs, or
\* <<I_cs, I_rs>> with Ir, each the pair of the two branches indexed by the
\* outer coordinate
Ic_threshold_of(I_, V_, threshold, offset, swt, Ir) ==
    LET I_sc(j) == [o \in 1..Len(I_[j]) |-> Masked(I_[j][o], V_[j][o], threshold, offset)]
        lowest(j) == [o \in 1..Len(I_[j]) |-> NanMin(I_sc(j)[o])]
        highest(j) == [o \in 1..Len(I_[j]) |-> NanMax(I_sc(j)[o])]
        returned(I_cs, I_rs) == Ok(IF Ir THEN <<I_cs, I_rs>> ELSE I_cs)
    IN  IF swt = Some(0)
        THEN (IF Len(I_) < 2 THEN Raise("IndexError")
              ELSE returned(<<lowest(1), highest(2)>>, <<highest(1), lowest(2)>>))
        ELSE IF swt = Some(1)
        THEN (IF Len(I_) < 4 THEN Raise("IndexError")
              ELSE returned(<<highest(1), lowest(3)>>, <<highest(2), lowest(4)>>))
        ELSE Raise("NotImplementedError")

\* np.nanmin(a, axis=axis) of an array of ndim dimensions raises AxisError
AxisRaises(axis, ndim) == axis >= ndim \/ axis < -ndim

\* get_Ic_threshold(I=..., V=..., threshold=..., Ir=...): own = NONE and
\* Vgiven tell that the caller passed V=self.V (or nothing, ~Vgiven), own =
\* Some([I, V]) that the caller passed arrays (sweep, point) of their own.
\* The single-trace test reads V.shape before the default is substituted;
\* offset is left to its default; the extrema are taken along
\* axis=self.scan_dim-1 of one sweep
get_Ic_threshold(Vgiven, threshold, Ir, own) ==
    LET return(r) == Called("get_Ic_threshold", <<Vgiven, threshold, Ir, own>>,
                            r.exc, r.val, <<>>)
        offset == IF V_offset = NONE THEN F(0) ELSE Val(V_offset)
    IN  /\ return(IF own # NONE
                  THEN (IF sweeptype \notin {Some(0), Some(1)}
                        THEN Raise("NotImplementedError")
                        ELSE IF scan_dim = NONE THEN Raise("TypeError")
                        ELSE IF AxisRaises(Val(scan_dim) - 1, 1)
                        THEN Raise("AxisError")
                        ELSE Ic_threshold_of(Val(own).I, Val(own).V, F(threshold),
                                             offset, sweeptype, Ir))
                  ELSE IF ~Vgiven \/ V = NONE THEN Raise("AttributeError")
                  ELSE Ic_threshold_of(Val(I), Val(V), F(threshold), offset,
                                       sweeptype, Ir))
        /\ UNCHANGED <<ctx, gs210>>

(***************************************************************************)
(* Sessions: sequences of calls on one context                             *)
(***************************************************************************)
\* open_qviewkit(uuid=u, ds=ds): u NONE or Some(file), ds NONE, Some("str")
\* or Some("list"); np.iterable holds of a str and of a list alike, so the
\* elif branch is never taken
open_qviewkit(u, ds, fin) ==
    LET opened == IF u = NONE THEN 0 ELSE 1
        local == IF u = NONE THEN df ELSE u
        exc == IF ds # NONE THEN "ValueError"
               ELSE IF local = NONE THEN "AttributeError" ELSE ""
        plot == IF exc = "" THEN <<"plot">> ELSE <<>>
        steps == IF u = NONE THEN plot ELSE <<"Data">> \o plot
    IN  /\ fin \/ handles < MaxHandles
        /\ handles' = Dropped(handles + opened, opened, fin)
        /\ CalledWith("open_qviewkit", <<u, ds>>, exc, <<>>, steps,
                      [open |-> handles + opened])
        /\ UNCHANGED <<gs210, uuid, df, m_type, scan_dim, sweeptype, sweeps, bias, I, V,
                       V_corr, dVdI, offs>>

\* the keys save always writes
SavedKeys ==
    {"uuid", "path", "measurement_object", "measurement_type", "scan_dimension",
     "sweep_type", "sweeps", "bias", "I", "V", "dVdI", "I_offsets", "V_offsets",
     "I_offset", "V_offset", "x_coordname", "x_unit", "x_vector", "y_coordname",
     "y_unit", "y_vector"}

\* the number of elements of an array (sweep, outer, point)
Size(a) ==
    LET RECURSIVE sum(_, _)
        sum(f, n) == IF n = 0 THEN 0 ELSE f[n] + sum(f, n - 1)
        row(j) == sum([o \in 1..Len(a[j]) |-> Len(a[j][o])], Len(a[j]))
    IN  sum([j \in 1..Len(a) |-> row(j)], Len(a))

\* bool(array): an empty array is false, an array of one element is that
\* element's truth value (NaN is true), any other array raises ValueError
Truth(a) ==
    IF Size(a) = 0 THEN [exc |-> "", val |-> FALSE]
    ELSE IF Size(a) = 1
    THEN [exc |-> "", val |-> \E j \in 1..Len(a) : \E o \in 1..Len(a[j]) :
                                 Len(a[j][o]) = 1 /\ a[j][o][1] # F(0)]
    ELSE Raise("ValueError")

\* if self.V_corr: None is false, an array has the truth value of bool(array)
V_corr_set == IF V_corr = NONE THEN [exc |-> "", val |-> FALSE] ELSE Truth(Val(V_corr))

\* save(filename, params): filename a sequence of name parts, params NONE or
\* Some(set of further keys); ret is the name and the keys of the file
\* written, with the V_corr written under its key
save(filename, params) ==
    LET more == IF params = NONE THEN {} ELSE Val(params)
        name == IF \E k \in 1..Len(filename) : filename[k] = ".json"
                THEN filename ELSE filename \o <<".json">>
        written(t) ==
            IF t.exc # "" THEN NONE
            ELSE Some([filename |-> name,
                       keys |-> SavedKeys \cup more
                                \cup (IF t.val THEN {"V_corr"} ELSE {}),
                       V_corr |-> IF t.val THEN V_corr ELSE NONE])
        return(t) == Called("save", <<filename, params>>, t.exc, written(t), <<>>)
    IN  /\ return(V_corr_set)
        /\ UNCHANGED <<ctx, gs210>>

\* tolerances and windows handed to the detector
Tols == {tol_offset_default, 600, 650}

Windows == {3, window_default}

\* an analysis session
Next ==
    \/ \E u \in UUIDs, dv \in BOOLEAN, g \in UninitFills : load(u, dv, g, TRUE)
    \/ get_dVdI
    \/ \E yr \in BOOLEAN : get_offset(FALSE, threshold_default, 0, yr)
    \/ get_2wire_slope_correction
    \/ \E Vgiven \in BOOLEAN, Ir \in BOOLEAN :
          get_Ic_deriv(Vgiven, Ir, tol_offset_default, window_default,
                       prominence_default)
    \/ \E Vgiven \in BOOLEAN : get_Ic_dft(Vgiven)

Spec == Init /\ [][Next]_vars

\* sweep lists handed to get_sweeptype directly
SweepArgs ==
    {NONE, Some(<< <<0, 10, 1>>, <<10, 0, 1>> >>),
     Some(<< <<0, 10, 1>>, <<10, 0, 1>>, <<0, -10, 1>>, <<-10, 0, 1>> >>),
     Some(<< <<0, 10, 1>>, <<10, 0, 2>> >>),
     Some(<< <<0, 10, 1>>, <<10, 0, 1>>, <<0, -10, 1>> >>)}
    \cup {Some(SweepsOf(kind)) : kind \in {"hs", "q4", "cu", "up2", "mix4"}}

\* classifying the sweep topology
NextSweep ==
    \/ \E u \in SweepFiles, dv \in BOOLEAN, g \in UninitFills : load(u, dv, g, TRUE)
    \/ \E arg \in SweepArgs : get_sweeptype(arg)

SpecSweep == Init /\ [][NextSweep]_vars

\* thresholds and window shifts handed to get_offsets
Thresholds == {threshold_default, 500}

Shifts == {0, 1}

\* estimating the offsets
NextOffsets ==
    \/ \E u \in OffsetFiles : load(u, TRUE, "zero", TRUE)
    \/ \E xy \in BOOLEAN, th \in Thresholds, off \in Shifts, yr \in BOOLEAN :
          get_offsets(xy, th, off, yr)
    \/ \E yr \in BOOLEAN : get_offset(FALSE, threshold_default, 0, yr)

SpecOffsets == Init /\ [][NextOffsets]_vars

\* traces handed to get_dydx: a finite prefix of n points and a run of m NaN
Padded(n, m, square) ==
    [p \in 1..(n + m) |-> IF p > n THEN NaN ELSE IF square THEN F(p * p) ELSE F(p)]

\* loading and differentiating sweeps of unequal length
NextLoad ==
    \/ \E u \in RaggedFiles, dv \in BOOLEAN, g \in UninitFills : load(u, dv, g, TRUE)
    \/ get_dVdI
    \/ \E n \in 3..5, m \in 0..MaxCut, xgiven \in BOOLEAN :
          get_dydx_call(Padded(n, m, TRUE),
                        IF xgiven THEN Some(Padded(n, m, FALSE)) ELSE NONE)

SpecLoad == Init /\ [][NextLoad]_vars

\* detecting and classifying jumps
NextJump ==
    \/ \E u \in UUIDs, dv \in BOOLEAN, g \in UninitFills : load(u, dv, g, TRUE)
    \/ \E Ir \in BOOLEAN, tol \in Tols, w \in Windows :
          get_Ic_deriv(TRUE, Ir, tol, w, prominence_default)

SpecJump == Init /\ [][NextJump]_vars

\* one loaded data set and the three analysis steps in any order
NextOrder ==
    \/ uuid = NONE /\ \E u \in OrderFiles, dv \in BOOLEAN, g \in UninitFills :
          load(u, dv, g, TRUE)
    \/ uuid # NONE /\ get_dVdI
    \/ uuid # NONE /\ get_offset(FALSE, threshold_default, 0, FALSE)
    \/ uuid # NONE /\ get_2wire_slope_correction

SpecOrder == Init /\ [][NextOrder]_vars

\* the operations that depend on the scan dimension, on contexts of every
\* scan dimension
NextDim ==
    \/ \E u \in DimFiles : load(u, TRUE, "zero", TRUE)
    \/ \E arg \in {NONE, Some(SweepsOf("hs")), Some(SweepsOf("cu"))} :
          get_sweeptype(arg)
    \/ \E xy \in BOOLEAN : get_offsets(xy, threshold_default, 0, FALSE)
    \/ get_offset(FALSE, threshold_default, 0, FALSE)
    \/ \E Ir \in BOOLEAN, own \in {NONE} \cup {Some(a) : a \in OwnArrays} :
          get_Ic_threshold(TRUE, threshold_default, Ir, own)
    \/ get_2wire_slope_correction
    \/ get_Ic_deriv(TRUE, FALSE, tol_offset_default, window_default,
                    prominence_default)
    \/ get_Ic_dft(TRUE)

SpecDim == Init /\ [][NextDim]_vars

\* slope correction of data sets with different numbers of peaks
NextSlope ==
    \/ \E u \in SlopeFiles, dv \in BOOLEAN : load(u, dv, "zero", TRUE)
    \/ get_dVdI
    \/ get_2wire_slope_correction

SpecSlope == Init /\ [][NextSlope]_vars

\* prominences handed to the peak finder: the default and one that no peak
\* of the data reaches
Prominences == {prominence_default, 1000}

\* sessions on contexts of classified and of custom topology
NextCustom ==
    \/ \E u \in CustomFiles : load(u, TRUE, "zero", TRUE)
    \/ \E arg \in {NONE, Some(<< <<0, 6, 1>>, <<6, 0, 1>>, <<0, -6, 1>> >>)} :
          get_sweeptype(arg)
    \/ \E yr \in BOOLEAN : get_offsets(FALSE, threshold_default, 0, yr)
    \/ get_offset(FALSE, threshold_default, 0, FALSE)
    \/ \E Vgiven \in BOOLEAN, Ir \in BOOLEAN, prominence \in Prominences :
          get_Ic_deriv(Vgiven, Ir, tol_offset_default, window_default, prominence)
    \/ \E Vgiven \in BOOLEAN : get_Ic_dft(Vgiven)
    \/ \E Vgiven \in BOOLEAN, Ir \in BOOLEAN :
          get_Ic_threshold(Vgiven, threshold_default, Ir, NONE)

SpecCustom == Init /\ [][NextCustom]_vars

\* detecting jumps in scans of every dimension, with sweeps of equal and of
\* unequal length
NextScan ==
    \/ \E u \in ScanFiles : load(u, TRUE, "zero", TRUE)
    \/ \E Ir \in BOOLEAN, tol \in Tols, w \in Windows \cup {9} :
          get_Ic_deriv(TRUE, Ir, tol, w, prominence_default)

SpecScan == Init /\ [][NextScan]_vars

(***************************************************************************)
(* The Yokogawa GS210 current source, in source mode 'curr'                *)
(***************************************************************************)
\* the largest level in mA asked of the source
MaxLevel == 3

Levels == -MaxLevel..MaxLevel

\* do_get_output: 'zero' and 0 are off, any other number is on
do_get_output == IF outp_stat # 0 THEN "on" ELSE "off"

\* do_get_level in mode 'curr': float(:sour:lev?) * 1000, in mA
do_get_level == sour_lev \div 1000

\* do_set_output(val): any value other than 'on' and 'off' is only logged
set_output(val) ==
    /\ outp_stat' = IF val = "on" THEN 1 ELSE IF val = "off" THEN 0 ELSE outp_stat
    /\ Called("set_output", <<val>>, "", <<>>, <<>>)
    /\ UNCHANGED <<ctx, sour_lev>>

\* do_set_level(val) in mode 'curr': :sour:lev val*10**-3
set_level(val) ==
    /\ sour_lev' = val * 1000
    /\ Called("set_level", <<val>>, "", <<>>, <<>>)
    /\ UNCHANGED <<ctx, outp_stat>>

\* numpy.arange(start, stop, step) for step # 0
RECURSIVE arange(_, _, _)
arange(start, stop, step) ==
    IF (step > 0 /\ start >= stop) \/ (step < 0 /\ start <= stop) THEN <<>>
    ELSE <<start>> \o arange(start + step, stop, step)

\* the levels the loop of ramp_current sets: set_level is called under
\* if showvalue==True
LevelsShown(a, showvalue) == IF showvalue THEN a ELSE <<>>

\* ramp_current(target, step, wait_time, showvalue, outp); ret is the
\* message returned or NONE, steps the levels set one after the other,
\* locals the output state and the level read at the start
ramp_current(target, step, showvalue, outp) ==
    LET op == do_get_output
        start == do_get_level
        signed == IF target < start THEN -step ELSE step
        rest(r) == IF r = <<>> THEN <<>> ELSE Tail(r)
        a == rest(arange(start, target, signed)) \o <<target>>
        return(ret, set) ==
            /\ sour_lev' = IF set = <<>> THEN sour_lev ELSE set[Len(set)] * 1000
            /\ CalledWith("ramp_current", <<target, step, showvalue, outp>>, "", ret, set,
                          [op |-> op, start |-> start])
    IN  /\ step # 0
        /\ IF outp /\ op = "off" THEN return(Some("Attention: Output is off!"), <<>>)
           ELSE IF ~outp /\ op = "on" THEN return(Some("Attention: Output is on!"), <<>>)
           ELSE IF target = start THEN return(Some("Target value already reached!"), <<>>)
           ELSE return(NONE, LevelsShown(a, showvalue))
        /\ UNCHANGED <<ctx, outp_stat>>

\* an operator at the current source
NextRamp ==
    \/ \E val \in {"on", "off", "auto"} : set_output(val)
    \/ \E val \in Levels : set_level(val)
    \/ \E target \in Levels, step \in {1, 2, -1}, showvalue \in BOOLEAN, outp \in BOOLEAN :
          ramp_current(target, step, showvalue, outp)

SpecRamp == Init /\ [][NextRamp]_vars

\* loading, plotting, correcting and saving, with the interpreter free to
\* finalise a Data object that is no longer referenced or to leave it open
NextFile ==
    \/ \E u \in OrderFiles, fin \in BOOLEAN : load(u, TRUE, "zero", fin)
    \/ \E u \in {NONE} \cup {Some(f) : f \in OrderFiles}, fin \in BOOLEAN,
          ds \in {NONE, Some("str"), Some("list")} : open_qviewkit(u, ds, fin)
    \/ get_2wire_slope_correction
    \/ \E filename \in {<<"iv">>, <<"iv", ".json">>}, params \in {NONE, Some({"note"})} :
          save(filename, params)

SpecFile == Init /\ [][NextFile]_vars

(***************************************************************************)
(* Properties                                                              *)
(***************************************************************************)
\* a <= b for two finite values
LeQ(a, b) == a[1] * b[2] <= b[1] * a[2]

\* the mean of the h samples of V1D before (dir = -1) or after (dir = 1)
\* position k
WindowMean(V1D, k, h, dir) ==
    FDiv(FSum([m \in 1..h |-> V1D[k + dir * m + 1]]), F(h))

\* m lies in the closed band [Vo - tol, Vo + tol]
Inside(m, Vo, tol) == LeQ(FSub(Vo, tol), m) /\ LeQ(m, FAdd(Vo, tol))

\* both windows of candidate k lie inside the trace
Complete(V1D, k, h) == h <= k /\ k + h <= Len(V1D) - 1

\* the masks recorded by the last call agree with the band rule
MasksAgree(lo, tol, h, Vo) ==
    \A s \in DOMAIN lo.peaks : \A q \in 1..Len(lo.peaks[s]) :
        LET V1D == Val(V)[s[1]][s[2]]
            k   == lo.peaks[s][q]
            verdicts(b, a) ==
                /\ s \in DOMAIN lo.masks_c => lo.masks_c[s][q] = (b /\ ~a)
                /\ s \in DOMAIN lo.masks_r => lo.masks_r[s][q] = (~b /\ a)
        IN  Complete(V1D, k, h) =>
                verdicts(Inside(WindowMean(V1D, k, h, -1), Vo, tol),
                         Inside(WindowMean(V1D, k, h, 1), Vo, tol))

\* C1: for every candidate k whose two windows of h = window//2 samples lie
\* inside the trace, the classifier marks k critical iff the mean of V over
\* the h samples before k lies in the closed band [V_offset - tol,
\* V_offset + tol] and the mean over the h samples after k lies outside it,
\* and retrapping iff the before-mean lies outside and the after-mean inside
C1_MasksFollowClosedBand ==
    (last.op = "get_Ic_deriv" /\ last.locals # <<>>) =>
        MasksAgree(last.locals, F(last.args[3]), last.args[4] \div 2,
                   Val(V_offset))

\* a classified candidate whose after-mean is exactly V_offset + tol
C1_Boundary ==
    /\ last.op = "get_Ic_deriv" /\ last.locals # <<>>
    /\ \E s \in DOMAIN last.locals.masks_c :
       \E q \in 1..Len(last.locals.peaks[s]) :
          LET V1D == Val(V)[s[1]][s[2]]
              k   == last.locals.peaks[s][q]
              h   == last.args[4] \div 2
          IN  /\ Complete(V1D, k, h)
              /\ WindowMean(V1D, k, h, 1)
                    = FAdd(Val(V_offset), F(last.args[3]))
              /\ ~last.locals.masks_c[s][q]

\* sweep a reordered as (stop, start, step) equals (start, stop, step) of b
Reversed(a, b) == a[2] = b[1] /\ a[1] = b[2] /\ a[3] = b[3]

\* the sweeps the last get_sweeptype call looked at
Looked == IF last.args[1] = NONE THEN Val(sweeps) ELSE Val(last.args[1])

\* C2: get_sweeptype returns 0 for exactly two sweeps of which the first,
\* reordered as (stop, start, step), equals the second, and 1 for exactly
\* four sweeps where this holds for the first and for the second pair
C2_ReversedPairsClassified ==
    (last.op = "get_sweeptype" /\ last.exc = "") =>
        /\ (Len(Looked) = 2 /\ Reversed(Looked[1], Looked[2]))
              => (last.ret = <<Some(0)>> /\ sweeptype = Some(0))
        /\ (/\ Len(Looked) = 4
            /\ Reversed(Looked[1], Looked[2])
            /\ Reversed(Looked[3], Looked[4]))
              => (last.ret = <<Some(1)>> /\ sweeptype = Some(1))

\* a 4-quadrant list was classified
C2_FourQuadrant ==
    /\ last.op = "get_sweeptype" /\ last.exc = ""
    /\ Len(Looked) = 4 /\ last.ret = <<Some(1)>>

\* C3: get_sweeptype yields None for every list whose count is neither 2 nor
\* 4 and for every list of 2 or 4 sweeps that fails the reversal relation,
\* whatever the context held before
C3_CustomWheneverNoReversal ==
    (last.op = "get_sweeptype" /\ last.exc = "") =>
        ((\/ Len(Looked) \notin {2, 4}
          \/ (Len(Looked) = 2 /\ ~Reversed(Looked[1], Looked[2]))
          \/ (Len(Looked) = 4 /\ ~(/\ Reversed(Looked[1], Looked[2])
                                    /\ Reversed(Looked[3], Looked[4]))))
            => last.ret = <<NONE>>)

\* the planned length of sweep j of file u less the points it was cut short
SourceLen(u, j) == Len(SweepPoints(SweepsOf(Kind(u))[j])) - Cuts(u)[j]

\* array a holds the rows of src, each followed by NaN up to length n
PaddedTo(a, src, u, n) ==
    \A j \in 1..NSweeps(u) : \A o \in 1..NOuter(Dim(u)) :
        /\ Len(a[j][o]) = n
        /\ \A p \in 1..n :
              IF p > SourceLen(u, j) THEN IsNaN(a[j][o][p])
              ELSE a[j][o][p] = src[j][o][p]

\* C4: after load has assembled sweeps of lengths L_1..L_n, I and V have
\* trailing size max(L_i), hold NaN at every position >= L_i of sweep i and
\* the source value at every position below
C4_PaddedWithNaN ==
    (last.op = "load" /\ last.exc = "") =>
        LET u == last.args[1]
            n == MaxOf({SourceLen(u, j) : j \in 1..NSweeps(u)})
        IN  /\ PaddedTo(Val(I), [j \in 1..NSweeps(u) |-> FileI(u, j)], u, n)
            /\ PaddedTo(Val(V), [j \in 1..NSweeps(u) |-> FileV(u, j)], u, n)

\* sweeps of unequal length were loaded
C4_Unequal ==
    /\ last.op = "load" /\ last.exc = ""
    /\ Cuts(last.args[1])[1] # Cuts(last.args[1])[2]
    /\ \E j \in 1..2 : IsNaN(Val(V)[j][1][Len(Val(V)[j][1])])

\* C5: for a trace of n finite values followed by m NaN, on which the
\* strategy raises, get_dydx returns normally: the strategy applied to the
\* first n values, followed by m NaN
C5_NaNTailDifferentiated ==
    (last.op = "get_dydx" /\ \E p \in 1..Len(last.args[1]) : IsNaN(last.args[1][p]))
    => LET y == last.args[1]
           x == last.args[2]
           m == Cardinality({p \in 1..Len(y) : IsNaN(y[p])})
           n == Len(y) - m
           d == IF x = NONE THEN Mode1D(SubSeq(y, 1, n))
                ELSE Quot1D(Mode1D(SubSeq(y, 1, n)), Mode1D(SubSeq(Val(x), 1, n)))
       IN  last.exc = "" /\ last.ret = d \o [p \in 1..m |-> NaN]

\* C6: a whole-dataset detection by get_Ic_deriv or get_Ic_dft (V passed) on
\* a half-swing or 4-quadrant context whose V_offset is None leaves V_offset
\* known, and one on a context whose V_offset is known leaves the four
\* offsets as they were
C6_OffsetKnownAfterDetection ==
    [][(/\ last'.op \in {"get_Ic_deriv", "get_Ic_dft"}
        /\ last'.args[1]
        /\ scan_dim \in {Some(1), Some(2), Some(3)}
        /\ sweeptype \in {Some(0), Some(1)})
       => IF V_offset = NONE THEN V_offset' # NONE ELSE offs' = offs]_vars

\* C7: a load of an identifier other than the loaded one leaves I_offset,
\* V_offset, I_offsets, V_offsets and V_corr None
C7_ReloadDiscardsDerived ==
    [][(last'.op = "load" /\ uuid # NONE /\ uuid' # uuid)
       => (/\ I_offset' = NONE /\ V_offset' = NONE
           /\ I_offsets' = NONE /\ V_offsets' = NONE
           /\ V_corr' = NONE)]_vars

\* another data set was loaded into a context that had been in use
C7_Reloaded ==
    /\ last.op = "load" /\ last.steps = <<"__init__">> /\ last.exc = ""
    /\ V_offset = NONE /\ V_corr = NONE

\* the three analysis steps
Steps3 == {"get_dVdI", "get_offset", "get_2wire_slope_correction"}

\* C8 as stated: whatever the order and the repetitions of get_dVdI,
\* get_offset and get_2wire_slope_correction on a loaded context, V_corr
\* ends the same: once known it never takes another value
C8_SameCorrectionInEveryOrder ==
    [][(/\ uuid' = uuid /\ last'.op \in Steps3
        /\ V_corr # NONE /\ V_corr' # NONE)
       => V_corr' = V_corr]_vars

\* C8 amended: each of the three steps leaves I, V and the results of the
\* other two steps as they were, and a step repeated right after itself
\* leaves its own result as it was
C8_StepsKeepOthersAndRepeat ==
    [][/\ last'.op = "get_dVdI"
            => (/\ UNCHANGED <<I, V, V_corr, offs>>
                /\ last.op = "get_dVdI" => dVdI' = dVdI)
       /\ last'.op = "get_offset"
            => (/\ UNCHANGED <<I, V, V_corr, dVdI>>
                /\ last.op = "get_offset" => offs' = offs)
       /\ last'.op = "get_2wire_slope_correction"
            => (/\ UNCHANGED <<I, V, dVdI, offs>>
                /\ last.op = "get_2wire_slope_correction" => V_corr' = V_corr)]_vars

\* the slope correction was repeated right after itself, with all three
\* results known
C8_Repeated ==
    /\ last.op = "get_2wire_slope_correction" /\ last.again /\ last.exc = ""
    /\ V_corr # NONE /\ dVdI # NONE /\ V_offset # NONE

\* C9: get_offset called twice in a row with the same arguments returns the
\* same (I_offset, V_offset) both times, and no call of get_offset changes
\* I or V
C9_OffsetRepeatable ==
    [][last'.op = "get_offset"
       => (/\ I' = I /\ V' = V
           /\ (last.op = "get_offset" /\ last.args = last'.args)
                => (last'.ret = last.ret /\ last'.exc = last.exc))]_vars

\* get_offset returned offsets twice in a row
C9_Twice ==
    /\ last.op = "get_offset" /\ last.again /\ last.exc = ""
    /\ last.ret = <<Val(I_offset), Val(V_offset)>>

\* the values of y where x lies in [offset - threshold, offset + threshold]
InWindowOf(x1D, y1D, threshold, offset) ==
    {y1D[p] : p \in {q \in 1..Len(x1D) :
                        /\ ~IsNaN(x1D[q]) /\ ~IsNaN(y1D[q])
                        /\ LeQ(F(offset - threshold), x1D[q])
                        /\ LeQ(x1D[q], F(offset + threshold))}}

Largest(S) == IF S = {} THEN NaN ELSE CHOOSE v \in S : \A w \in S : LeQ(w, v)

Smallest(S) == IF S = {} THEN NaN ELSE CHOOSE v \in S : \A w \in S : LeQ(v, w)

\* the y offset of outer coordinate o by the rule of the claim
ExtremaMean(x, y, o, threshold, offset, yr) ==
    LET W(j) == InWindowOf(x[j][o], y[j][o], threshold, offset)
        half(a, b) == FDiv(FAdd(a, b), F(2))
    IN  IF sweeptype = Some(0)
        THEN (IF yr THEN half(Largest(W(1)), Smallest(W(2)))
                    ELSE half(Smallest(W(1)), Largest(W(2))))
        ELSE (IF yr THEN half(Largest(W(2)), Smallest(W(4)))
                    ELSE half(Largest(W(1)), Smallest(W(3))))

\* the last get_offsets call returned yo as y offsets for the data x, y
OffsetsFollowRule(x, y, yo) ==
    \A o \in 1..Len(yo) :
        yo[o] = ExtremaMean(x, y, o, last.args[2], last.args[3], last.args[4])

\* C10: the y offset get_offsets returns is the mean of two extrema of y
\* over the window: half-swing min of sweep 0 and max of sweep 1 (yr False),
\* max of sweep 0 and min of sweep 1 (yr True); 4-quadrant max of sweep 0 and
\* min of sweep 2 (yr False), max of sweep 1 and min of sweep 3 (yr True)
C10_YOffsetIsMeanOfExtrema ==
    (last.op = "get_offsets" /\ last.exc = "") =>
        IF last.args[1] \/ Val(bias) = 0
        THEN OffsetsFollowRule(Val(V), Val(I),
                               last.ret[IF Val(bias) = 0 THEN 1 ELSE 2])
        ELSE OffsetsFollowRule(Val(I), Val(V), last.ret[2])

\* offsets of the half-swing critical branch whose two extrema differ
C10_HalfSwingCritical ==
    /\ last.op = "get_offsets" /\ last.exc = ""
    /\ sweeptype = Some(0) /\ ~last.args[4] /\ Val(bias) = 0
    /\ Val(I_offsets)[1] # F(0)

\* C11: on a loaded context of custom topology get_offsets and get_offset
\* raise NotImplementedError and leave I_offsets, V_offsets, I_offset and
\* V_offset as they were
C11_CustomOffsetsRefused ==
    [][(/\ last'.op \in {"get_offsets", "get_offset"}
        /\ I # NONE /\ V # NONE /\ sweeptype = NONE)
       => (last'.exc = "NotImplementedError" /\ offs' = offs)]_vars

\* get_offsets was refused on a custom context that holds cached offsets
C11_RefusedWithCache ==
    /\ last.op = "get_offsets" /\ last.exc = "NotImplementedError"
    /\ sweeptype = NONE /\ I_offsets # NONE /\ V_offset # NONE

\* the number of peaks get_2wire_slope_correction finds in trace j of the
\* stored dVdI
PeaksIn(j) == Len(find_peaks(Val(dVdI)[j][1], prominence_default).idx)

FewPeaks == \E j \in 1..Len(Val(dVdI)) : PeaksIn(j) < 2

\* C12: on a context of scan dimension 1 in which some trace of dVdI has
\* fewer than two peaks, get_2wire_slope_correction raises and stores no
\* V_corr
C12_FewPeaksRefused ==
    [][(/\ last'.op = "get_2wire_slope_correction"
        /\ scan_dim = Some(1) /\ dVdI # NONE /\ FewPeaks)
       => (last'.exc # "" /\ V_corr' = V_corr)]_vars

\* the correction of one trace of the stored data, as the code of scan
\* dimension 1 computes it
TraceCorrected(j, o) ==
    slope_correction_1D(Val(I)[j][o], Val(V)[j][o], Val(dVdI)[j][o],
                        prominence_default)

Traces == (1..Len(Val(V))) \X (1..Len(Val(V)[1]))

\* C13: in scan dimension 1, 2 and 3 alike, when every trace can be
\* corrected, get_2wire_slope_correction returns and stores a V_corr in
\* which every trace is that trace's V minus its own fitted line
C13_EveryDimensionCorrected ==
    (/\ last.op = "get_2wire_slope_correction"
     /\ scan_dim \in {Some(1), Some(2), Some(3)} /\ dVdI # NONE
     /\ \A t \in Traces : TraceCorrected(t[1], t[2]).exc = "")
    => (/\ last.exc = ""
        /\ V_corr = Some(last.ret)
        /\ \A t \in Traces :
              Val(V_corr)[t[1]][t[2]] = TraceCorrected(t[1], t[2]).val)

\* the peaks of trace j of the stored dVdI
PeaksOf(j) == find_peaks(Val(dVdI)[j][1], prominence_default)

\* peaks q and r of pk (positions into pk.idx) are two of highest prominence
\* and q lies before r in the trace
HighestTwo(pk, q, r) ==
    /\ pk.idx[q] < pk.idx[r]
    /\ \A z \in (1..Len(pk.idx)) \ {q, r} :
          /\ FLe(pk.prominences[z], pk.prominences[q])
          /\ FLe(pk.prominences[z], pk.prominences[r])

\* what was subtracted from trace j
Removed(j) ==
    [p \in 1..Len(Val(V)[j][1]) |-> FSub(Val(V)[j][1][p], Val(V_corr)[j][1][p])]

\* d is one straight line in x over the whole trace
OneLine(x, d) ==
    \A p \in 1..Len(x) :
        FMul(FSub(d[p], d[1]), FSub(x[2], x[1]))
            = FMul(FSub(d[2], d[1]), FSub(x[p], x[1]))

\* the residual y of the samples lo <= p < hi (0-based) is that of a least
\* squares line through them: it sums to zero and is orthogonal to x
LeastSquaresOn(x, y, lo, hi) ==
    /\ FSum([p \in 1..(hi - lo) |-> y[lo + p]]) = F(0)
    /\ FSum([p \in 1..(hi - lo) |-> FMul(x[lo + p], y[lo + p])]) = F(0)

FittedBetweenTopTwo(j) ==
    \E q, r \in 1..Len(PeaksOf(j).idx) :
        /\ HighestTwo(PeaksOf(j), q, r)
        /\ LeastSquaresOn(Val(I)[j][1], Val(V_corr)[j][1],
                          PeaksOf(j).idx[q], PeaksOf(j).idx[r])

\* C14: after get_2wire_slope_correction on a context of scan dimension 1,
\* every trace with two or more peaks has lost one straight line over its
\* whole length, the least squares line of the samples from the earlier to
\* the later of its two peaks of highest prominence
C14_LineBetweenTopTwoPeaks ==
    (/\ last.op = "get_2wire_slope_correction" /\ last.exc = ""
     /\ scan_dim = Some(1))
    => \A j \in 1..Len(Val(V)) :
          Len(PeaksOf(j).idx) >= 2
          => /\ OneLine(Val(I)[j][1], Removed(j))
             /\ FittedBetweenTopTwo(j)

\* a corrected trace with three peaks whose most prominent one comes after
\* the second most prominent one, and with samples outside the fit interval
C14_ThreePeaksOutOfOrder ==
    /\ last.op = "get_2wire_slope_correction" /\ last.exc = ""
    /\ scan_dim = Some(1)
    /\ \E j \in 1..Len(Val(V)) :
          /\ Len(PeaksOf(j).idx) >= 3
          /\ \E q, r \in 1..Len(PeaksOf(j).idx) :
                /\ HighestTwo(PeaksOf(j), q, r)
                /\ FLt(PeaksOf(j).prominences[q], PeaksOf(j).prominences[r])
                /\ \E p \in 1..Len(Val(V)[j][1]) :
                      /\ p > PeaksOf(j).idx[r]
                      /\ Removed(j)[p] # F(0)

\* some trace of the stored dVdI has no peak of the given prominence
NoPeaksIn(prominence) ==
    \E j \in 1..Len(Val(dVdI)) : \E o \in 1..Len(Val(dVdI)[j]) :
        ~peak_finder_wrapped(Val(dVdI)[j][o], prominence).found

\* C15: a get_Ic_deriv call on the stored data, free of NaN, in which some
\* trace has no peak returns normally
C15_NoPeaksReturnsNormally ==
    (/\ last.op = "get_Ic_deriv" /\ last.args[1]
     /\ V # NONE /\ dVdI # NONE /\ scan_dim \in {Some(1), Some(2), Some(3)}
     /\ ~HasNaN(Val(dVdI))
     /\ NoPeaksIn(last.args[5]))
    => last.exc = ""

\* the steps of get_Ic_dft before the classifier, in the order of the claim
DftSteps == <<"detrend", "fft", "kernel", "ifft", "peaks">>

\* C16: a whole-dataset get_Ic_dft call (V passed) on a context of scan
\* dimension 1, 2 or 3 runs detrend, forward transform, kernel, inverse
\* transform and peak finding in this order and then the classifier
C16_DftStepsInOrder ==
    (/\ last.op = "get_Ic_dft" /\ last.args[1]
     /\ V # NONE /\ scan_dim \in {Some(1), Some(2), Some(3)})
    => (/\ Len(last.steps) > Len(DftSteps)
        /\ SubSeq(last.steps, 1, Len(DftSteps)) = DftSteps
        /\ last.steps[Len(DftSteps) + 1] = "label")

\* C17: get_Ic_threshold, get_Ic_deriv and get_Ic_dft called on a loaded
\* context with V omitted do not fail on V before self.V is substituted
C17_DefaultsSubstituted ==
    (/\ last.op \in {"get_Ic_threshold", "get_Ic_deriv", "get_Ic_dft"}
     /\ ~last.args[1] /\ I # NONE /\ V # NONE /\ dVdI # NONE)
    => last.exc # "AttributeError"

\* the slots <<sweep, outer>> of the stored data whose sweep has an even
\* (parity 0) or odd (parity 1) index counted from 0
SlotsOfParity(parity) ==
    {t \in Traces : (t[1] - 1) % 2 = parity}

\* the first candidate of slot t that the recorded mask keeps
FirstKept(mask, t) ==
    last.locals.peaks[t][CHOOSE q \in 1..Len(mask[t]) :
                            mask[t][q] /\ \A r \in 1..(q - 1) : ~mask[t][r]]

\* entry q of the returned I_cs (which = 1) or I_rs (which = 2) is read in
\* sweep j (1-based) at the first kept candidate, shifted by one for I_rs
ReadInSweep(which, q, j) ==
    \A o \in 1..Len(Val(V)[1]) :
        last.ret[which][q][o] =
            At(Val(I)[j][o],
               FirstKept(IF which = 1 THEN last.locals.masks_c
                         ELSE last.locals.masks_r, <<j, o>>) + (which - 1))

\* C18: the classifier evaluates critical masks only in the sweeps 0 and 2
\* and retrapping masks only in the sweeps 1 and 3 of a 4-quadrant context,
\* and reads the returned currents there; in a half-swing context a call
\* that returns has evaluated both masks in every sweep
C18_SweepsSearched ==
    (/\ last.op = "get_Ic_deriv" /\ last.locals # <<>>
     /\ scan_dim \in {Some(1), Some(2)})
    => /\ sweeptype = Some(1) =>
            /\ DOMAIN last.locals.masks_c \subseteq SlotsOfParity(0)
            /\ DOMAIN last.locals.masks_r \subseteq SlotsOfParity(1)
       /\ (sweeptype = Some(1) /\ last.exc = "" /\ last.args[2]) =>
            /\ DOMAIN last.locals.masks_c = SlotsOfParity(0)
            /\ DOMAIN last.locals.masks_r = SlotsOfParity(1)
            /\ Len(last.ret[1]) = 2 /\ Len(last.ret[2]) = 2
            /\ \A q \in 1..2 : ReadInSweep(1, q, 2 * q - 1)
            /\ \A q \in 1..2 : ReadInSweep(2, q, 2 * q)
       /\ (sweeptype = Some(0) /\ last.exc = "" /\ last.args[2]) =>
            /\ DOMAIN last.locals.masks_c = Traces
            /\ DOMAIN last.locals.masks_r = Traces
            /\ Len(last.ret[1]) = Len(Val(V))
            /\ Len(last.ret[2]) = Len(Val(V))
            /\ \A j \in 1..Len(Val(V)) :
                  ReadInSweep(1, j, j) /\ ReadInSweep(2, j, j)

\* a 4-quadrant call that returned critical and retrapping currents
C18_FourQuadrantSplit ==
    /\ last.op = "get_Ic_deriv" /\ last.exc = "" /\ last.args[2]
    /\ sweeptype = Some(1) /\ Len(Val(V)) = 4
    /\ last.ret[1] # last.ret[2]

\* rec is the property record of the candidates ks of trace <<j, o>>
RecordOf(rec, ks, j, o) ==
    /\ rec.index = ks
    /\ rec.I = [q \in 1..Len(ks) |-> At(Val(I)[j][o], ks[q])]
    /\ rec.V = [q \in 1..Len(ks) |-> At(Val(V)[j][o], ks[q])]
    /\ rec.Y = [q \in 1..Len(ks) |-> At(Val(dVdI)[j][o], ks[q])]

\* rec is the record of a trace without candidates
EmptyRecord(rec) ==
    rec.index = <<NaN>> /\ rec.I = <<NaN>> /\ rec.V = <<NaN>> /\ rec.Y = <<NaN>>

\* ret holds nothing but one property record per trace of the stored data
OnlyRecords(ret, prominence) ==
    /\ Len(ret) = 1
    /\ Len(ret[1]) = Len(Val(V))
    /\ \A t \in Traces :
          LET pk == peak_finder_wrapped(Val(dVdI)[t[1]][t[2]], prominence)
          IN  IF pk.found THEN RecordOf(ret[1][t[1]][t[2]], pk.idx, t[1], t[2])
              ELSE EmptyRecord(ret[1][t[1]][t[2]])

\* C19: on a loaded context of custom topology whose dVdI holds no NaN,
\* get_Ic_deriv (V passed) returns one property record per trace and nothing
\* else, with or without Ir, and computes no offset: I_offsets, V_offsets,
\* I_offset and V_offset stay as they were, cached or not
C19_CustomReturnsRecordsOnly ==
    [][(/\ last'.op = "get_Ic_deriv" /\ last'.args[1]
        /\ I # NONE /\ V # NONE /\ dVdI # NONE /\ sweeptype = NONE
        /\ scan_dim \in {Some(1), Some(2), Some(3)}
        /\ ~HasNaN(Val(dVdI)))
       => (/\ last'.exc = ""
           /\ OnlyRecords(last'.ret, last'.args[5])
           /\ last'.steps = <<"peaks", "label", "properties">>
           /\ offs' = offs)]_vars

\* a custom context without any offset got its records, candidates included
C19_RecordsWithoutOffset ==
    /\ last.op = "get_Ic_deriv" /\ last.exc = ""
    /\ sweeptype = NONE /\ V_offset = NONE /\ I_offsets = NONE
    /\ ~NoPeaksIn(last.args[5])

\* voltage offsets tried: inside, at the edge of and far from the branches
\* of the data, and the cached one
OffsetsTried ==
    {F(0), F(1), F(500), F(-300)} \cup (IF V_offset = NONE THEN {} ELSE {Val(V_offset)})

\* no position k (0-based) of the trace V1D whose windows can be read gets
\* both masks
NeverBoth(V1D) ==
    \A k \in 0..(Len(V1D) - 1) : \A vo \in OffsetsTried :
    \A tol \in Tols : \A w \in Windows :
        ~MaskRaises(V1D, k, w)
        => ~(mask_c(V1D, k, vo, F(tol), w) /\ mask_r(V1D, k, vo, F(tol), w))

\* C20: for every trace of the stored V, every candidate position, offset,
\* tolerance and window the critical and the retrapping mask are not both
\* true, and no candidate of a get_Ic_deriv call has both recorded masks true
C20_MasksExclusive ==
    V # NONE
    => /\ \A t \in Traces : NeverBoth(Val(V)[t[1]][t[2]])
       /\ (last.op = "get_Ic_deriv" /\ last.locals # <<>>)
          => \A t \in DOMAIN last.locals.masks_c \cap DOMAIN last.locals.masks_r :
                \A q \in 1..Len(last.locals.masks_c[t]) :
                    ~(last.locals.masks_c[t][q] /\ last.locals.masks_r[t][q])

\* a trace searched for both events holds a critical and a retrapping
\* candidate
C20_BothKindsInOneTrace ==
    /\ last.op = "get_Ic_deriv" /\ last.locals # <<>>
    /\ \E t \in DOMAIN last.locals.masks_c \cap DOMAIN last.locals.masks_r :
          /\ \E q \in 1..Len(last.locals.masks_c[t]) : last.locals.masks_c[t][q]
          /\ \E q \in 1..Len(last.locals.masks_r[t]) : last.locals.masks_r[t][q]

\* the operations whose result depends on the scan dimension
DimOps ==
    {"get_offsets", "get_offset", "get_Ic_threshold", "get_2wire_slope_correction",
     "get_Ic_deriv", "get_Ic_dft"}

\* C21: on a context whose scan dimension is not 1, 2 or 3 every operation
\* that depends on it raises and leaves V_corr and the cached offsets as
\* they were
C21_WrongDimensionRefused ==
    [][(last'.op \in DimOps /\ scan_dim \notin {Some(1), Some(2), Some(3)})
       => (last'.exc # "" /\ V_corr' = V_corr /\ offs' = offs)]_vars


\* C22: whenever load or open_qviewkit opens a data file, the context holds no other open file handle, and after any sequence of such calls at most one file handle is open
C22_OneHandleAtATime ==
    /\ handles <= 1
    /\ last.op \in {"load", "open_qviewkit"} => last.locals.open <= 1

\* C23: save completes; it writes no key V_corr while V_corr was never computed and writes the corrected array under V_corr once get_2wire_slope_correction has succeeded
C23_SaveEmitsCorrection ==
    last.op = "save"
    => /\ last.exc = ""
       /\ V_corr = NONE => "V_corr" \notin Val(last.ret).keys
       /\ V_corr # NONE => "V_corr" \in Val(last.ret).keys /\ Val(last.ret).V_corr = V_corr


\* the derivative of the values the file holds for sweep j of u, padded as
\* load pads the sweep
OwnDerivative(u, j) ==
    PadRow(get_dydx_2D(FileV(u, j), FileI(u, j)).val,
           <<0, MaxPoints(u) - Len(FileI(u, j)[1])>>)

\* C24: after load has been asked for a stored derivative that the file does not hold, load has completed and the dV/dI of every sweep j is the derivative of the voltage and current values the file holds for sweep j
C24_FallbackDerivativeOfOwnSweep ==
    (last.op = "load" /\ last.args[2] /\ Kind(last.args[1]) # "nt"
        /\ Dvdi(last.args[1]) = "none")
    => /\ last.exc = ""
       /\ \A j \in 1..NSweeps(last.args[1]) :
              Val(dVdI)[j] = OwnDerivative(last.args[1], j)


\* C25: the whole-dataset detector, called on a context whose signal holds NaN padding, returns, and its property records list every candidate of every trace under the label of the signal
C25_NaNPaddingClassified ==
    (last.op = "get_Ic_deriv" /\ last.args[1] /\ dVdI # NONE /\ HasNaN(Val(dVdI)))
    => /\ last.exc = ""
       /\ \A j \in 1..Len(Val(dVdI)) : \A o \in 1..Len(Val(dVdI)[j]) :
              LET rec == last.ret[Len(last.ret)][j][o]
              IN  /\ rec.index = peak_finder_wrapped(Val(dVdI)[j][o], last.args[5]).idx
                  /\ rec.label = "dVdI"

\* the slots <<sweep, outer>> whose masks the call evaluated or began with
Classified == DOMAIN last.locals.masks_c \cup DOMAIN last.locals.masks_r \cup {<<1, 1>>}

\* the windows of candidate k of a trace read the h samples before and the
\* h samples after k, all of them samples of the trace
WindowsExact(V1D, k, window) ==
    /\ ~MaskRaises(V1D, k, window)
    /\ \A m \in 1..HalfWindow(window) :
          /\ 0 <= k - m /\ k + m <= Len(V1D) - 1
          /\ Read(V1D, BeforePos(k, window))[m] = V1D[k - m + 1]
          /\ Read(V1D, AfterPos(k, window))[m] = V1D[k + m + 1]

\* C26: for every candidate k of a classified trace of n samples, the window before k reads exactly V[k-h..k-1] and the window after k exactly V[k+1..k+h], no sample outside 0..n-1 and none from the other end of the trace
C26_WindowsWithinTrace ==
    (last.op = "get_Ic_deriv" /\ last.locals # <<>>)
    => \A sl \in Classified : \A q \in 1..Len(last.locals.peaks[sl]) :
          WindowsExact(Val(V)[sl[1]][sl[2]], last.locals.peaks[sl][q], last.args[4])

\* the slots searched for critical currents
SearchedC == {<<j, o>> : j \in SweepsC(sweeptype, Len(Val(V))), o \in 1..Len(Val(V)[1])}

\* every slot searched for critical currents holds a critical candidate
EveryCritical ==
    \A sl \in SearchedC :
        /\ sl \in DOMAIN last.locals.masks_c
        /\ \E q \in 1..Len(last.locals.masks_c[sl]) : last.locals.masks_c[sl][q]

\* the current at the first critical candidate of a slot
FirstCritical(sl) ==
    LET q == CHOOSE q \in 1..Len(last.locals.masks_c[sl]) :
                /\ last.locals.masks_c[sl][q]
                /\ \A r \in 1..(q - 1) : ~last.locals.masks_c[sl][r]
    IN  At(Val(I)[sl[1]][sl[2]], last.locals.peaks[sl][q])

\* C27: a detector call with Ir=False on data whose every searched trace holds a critical candidate returns the critical currents, whether or not a trace holds a retrapping candidate
C27_CriticalWithoutRetrapping ==
    (last.op = "get_Ic_deriv" /\ ~last.args[2] /\ last.locals # <<>> /\ EveryCritical)
    => /\ last.exc = ""
       /\ \A sl \in SearchedC :
              \E q \in 1..Len(last.ret[1]) : last.ret[1][q][sl[2]] = FirstCritical(sl)

\* the result [exc, val] of the detector for the traces of outer index o
\* alone, taken as a scan of dimension 1
AsScanOfDimension1(o) ==
    LET col(a) == [j \in 1..Len(a) |-> <<a[j][o]>>]
    IN  classify(col(Val(I)), col(Val(V)), col(Val(dVdI)),
                 [j \in 1..Len(Val(dVdI)) |->
                     <<peak_finder_wrapped(Val(dVdI)[j][o], last.args[5])>>],
                 "dVdI", V_offset, sweeptype, Some(1), F(last.args[3]), last.args[4],
                 TRUE)

\* C28: the critical and the retrapping currents a detector call reports for a trace of a scan of dimension 1, 2 or 3 are those it reports for the same trace in a scan of dimension 1
C28_CopiesAgree ==
    (last.op = "get_Ic_deriv" /\ last.args[2] /\ last.exc = "" /\ Len(last.ret) = 3)
    => \A o \in 1..Len(Val(V)[1]) :
          LET one(r) ==
                /\ r.exc = ""
                /\ \A q \in 1..Len(last.ret[1]) : last.ret[1][q][o] = r.val[1][q][1]
                /\ \A q \in 1..Len(last.ret[2]) : last.ret[2][q][o] = r.val[2][q][1]
          IN  one(AsScanOfDimension1(o))


\* what get_offset() with its default arguments computes on the data of the
\* context, [exc, val]
DirectOffset == OffsetsCall(FALSE, threshold_default, 0, FALSE)

\* C29: in current bias and in voltage bias, the voltage offset that the classifier has computed on demand is the V_offset that get_offset() with default arguments computes on the same data
C29_LazyOffsetIsDirectOffset ==
    (/\ last.op = "get_Ic_deriv"
     /\ "get_offset" \in {last.steps[k] : k \in 1..Len(last.steps)}
     /\ V_offset # NONE)
    => /\ DirectOffset.exc = ""
       /\ V_offset = Some(get_offset_of(DirectOffset.val)[2])
       /\ I_offset = Some(get_offset_of(DirectOffset.val)[1])


\* ramp_current was not refused: the output state it read matches outp and
\* target differs from the level it read
NotRefused ==
    /\ last.args[4] = (last.locals.op = "on")
    /\ last.args[1] # last.locals.start

\* C30: when ramp_current was not refused and has returned, the level of the source is target, with showvalue True or False; when it was refused, it has set no level
C30_RampReachesTarget ==
    last.op = "ramp_current"
    => /\ NotRefused => do_get_level = last.args[1]
       /\ ~NotRefused => (last.steps = <<>> /\ do_get_level = last.locals.start)

====
